---- MODULE Spec2Model ----
(***************************************************************************)
(* Lifecycle and state reconciliation of local-db (src-tauri): the record  *)
(* map of AppState, the state file, the DatabaseManager start/stop guards, *)
(* the install worker and sync_databases_status, as threads that interleave *)
(* at the points where the code releases its locks.                        *)
(***************************************************************************)
EXTENDS Integers, Sequences, FiniteSets, TLC

\* Commands invoked after startup.
MaxOps == 2

\* Increments a progress thread makes before it only waits for progress_stop.
MaxTicks == 1

\* Threads that run commands through the shared AppState (Arc<Mutex<..>>).
Procs == {"t1", "t2"}

\* cfg(target_os = "macos") build versus the other builds.
Platforms == {"macos", "other"}

DatabaseType == {"mysql", "postgresql", "mongodb", "redis", "qdrant", "surrealdb"}

\* Engine types the commands and the state file are exercised with.
InTypes == {"mysql", "qdrant"}

DatabaseStatus == {"Running", "Stopped", "NotInstalled"}

\* Engines supervised through a sidecar PID file on macOS.
PidFileTypes == {"qdrant", "surrealdb"}

as_str(t) == t

default_port(t) ==
    CASE t = "mysql" -> 3306
      [] t = "postgresql" -> 5432
      [] t = "mongodb" -> 27017
      [] t = "redis" -> 6379
      [] t = "qdrant" -> 6333
      [] t = "surrealdb" -> 8000

\* Option<u32>::None of DatabaseInfo.pid.
NoPid == 0

\* Option<u16>::None of InstallDatabaseParams.port.
NoPort == -1

\* First pid DatabaseManager::new seeds next_pid with.
FirstMockPid == 10000

ManagedByHomebrew == "Managed by Homebrew"

\* utils::get_db_data_path(storage, type): <storage>/data/<type>, named by its type.
get_db_data_path(t) == t

DatabaseInfo(id, t, st, auto, pid, port, path, upd) ==
    [id |-> id, db_type |-> t, status |-> st, auto_start |-> auto, pid |-> pid,
     port |-> port, data_path |-> path, updated_at |-> upd]

\* Option<DatabaseInfo>::None.
NoInfo == DatabaseInfo("", "", "", FALSE, NoPid, 0, "", 0)

GlobalSettingsDefault == [theme |-> "light"]

\* Option<String>::None of AsyncTask.error.
NoError == "None"

\* The fields of AsyncTask the task commands and the progress events carry.
AsyncTask(status, progress, error) ==
    [status |-> status, progress |-> progress, error |-> error]

TaskStatus == {"Pending", "Running", "Completed", "Failed"}

\* Option<AsyncTask>::None.
NoTask == AsyncTask("", 0, NoError)

\* The progress thread adds ProgressStep per second up to ProgressCap; a
\* completed install reports ProgressDone.
ProgressStep == 2

ProgressCap == 98

ProgressDone == 100

SettingsInputs == {[theme |-> "light"], [theme |-> "dark"]}

\* utils::generate_id: the clock reading printed as a decimal string.
generate_id(now) == ToString(now)

\* utils::get_timestamp when it restamps a record: a reading later than the
\* stamp the record carries.
get_timestamp(db_info) == db_info.updated_at + 1

\* utils::get_timestamp when it stamps a record that is being created.
CreatedAt == 1

(***************************************************************************)
(* Service names are token sequences, so that starts_with and the exact    *)
(* HashMap lookup of an alias are different relations.                     *)
(***************************************************************************)
StartsWith(s, prefix) ==
    /\ Len(prefix) <= Len(s)
    /\ SubSeq(s, 1, Len(prefix)) = prefix

\* HomebrewDatabaseRecipe::resolve(db_type).service_name, <<>> when it bails.
RecipeServiceName(t) ==
    CASE t = "redis" -> <<"redis">>
      [] t = "mysql" -> <<"mysql", "@8.4">>
      [] t = "postgresql" -> <<"postgresql", "@18">>
      [] t = "mongodb" -> <<"mongodb-community", "@7.0">>
      [] OTHER -> <<>>

\* AppState::get_brew_service_name.
get_brew_service_name(t) ==
    CASE t = "redis" -> <<"redis">>
      [] t = "mysql" -> <<"mysql">>
      [] t = "postgresql" -> <<"postgresql">>
      [] t = "mongodb" -> <<"mongodb-community", "@7.0">>
      [] t = "qdrant" -> <<"qdrant">>
      [] t = "surrealdb" -> <<"surreal">>

\* Aliases sync_databases_status looks up for a brew-managed type, in order.
BrewAliases(t) ==
    CASE t = "redis" -> << <<"redis">> >>
      [] t = "mysql" -> << <<"mysql", "@8.4">>, <<"mysql", "@8.0">>, <<"mysql">> >>
      [] t = "postgresql" -> << <<"postgresql", "@18">>, <<"postgresql", "@17">>,
                                <<"postgresql", "@16">>, <<"postgresql">> >>
      [] t = "mongodb" -> << <<"mongodb-community", "@7.0">>, <<"mongodb-community", "@6.0">>,
                             <<"mongodb-community">> >>
      [] OTHER -> << >>

\* service_mappings of the auto-discovery loop: (prefix, type), in order.
service_mappings ==
    << [prefix |-> <<"mysql">>, db_type |-> "mysql"],
       [prefix |-> <<"postgresql">>, db_type |-> "postgresql"],
       [prefix |-> <<"redis">>, db_type |-> "redis"],
       [prefix |-> <<"mongodb-community">>, db_type |-> "mongodb"] >>

\* The literal port table of the auto-discovery loop.
DiscoveryPort(t) ==
    CASE t = "mysql" -> 3306
      [] t = "postgresql" -> 5432
      [] t = "redis" -> 6379
      [] t = "mongodb" -> 27017
      [] OTHER -> 0

VARIABLES
    platform,     \* which build runs
    phase,        \* "boot" | "autostart" | "ready"
    loaded,       \* the records load_state returned at startup (history)
    clock,        \* the wall clock as utils::generate_id reads it
    databases,    \* AppState.databases: id -> DatabaseInfo
    settings,     \* AppState.settings
    tasks,        \* AppState.tasks: task id -> AsyncTask
    ticker,       \* per install task: the progress thread's position, its counter, progress_stop
    file,         \* ~/.local-db/state.json
    mock_pids,    \* DatabaseManager.mock_pids: id -> pid
    next_pid,     \* DatabaseManager.next_pid
    brewUp,       \* whether the brew binary answers
    brewList,     \* `brew services list`: service name -> status word
    pidFile,      \* sidecar PID file per engine type
    dataDirs,     \* data directories that exist on disk
    th,           \* per thread: position and locals of the running command
    ops,          \* commands invoked so far
    saveFailed,   \* whether some write of the state file has failed so far
    quiet         \* registry statuses after the last reconciliation pass that ran undisturbed

vars == <<platform, phase, loaded, clock, databases, settings, tasks, ticker, file, mock_pids, next_pid,
          brewUp, brewList, pidFile, dataDirs, th, ops, saveFailed, quiet>>

env == <<brewUp, brewList, pidFile, dataDirs>>


(***************************************************************************)
(* Registry helpers (AppState)                                             *)
(***************************************************************************)
EmptyMap == << >>

Values(m) == {m[i] : i \in DOMAIN m}

Without(m, id) == [i \in DOMAIN m \ {id} |-> m[i]]

StatusMap(m) == [i \in DOMAIN m |-> m[i].status]

\* The same insert without the eviction.
UpdateDatabaseKeep(dbs, db_info) ==
    [i \in DOMAIN dbs \cup {db_info.id} |-> IF i = db_info.id THEN db_info ELSE dbs[i]]

\* The body of AppState::update_database under the record-map lock:
\* evict every other record of the same type, then insert.
UpdateDatabase(dbs, db_info) ==
    LET duplicate_ids == {i \in DOMAIN dbs : i # db_info.id /\ dbs[i].db_type = db_info.db_type}
        kept == (DOMAIN dbs \ duplicate_ids) \cup {db_info.id}
    IN  [i \in kept |-> IF i = db_info.id THEN db_info ELSE dbs[i]]

\* The same check without the scan for a record of the same type.
AddConflictIdOnly(dbs, db_info) ==
    IF db_info.id \in DOMAIN dbs THEN "id" ELSE "none"

\* The check of AppState::add_database and of the install worker's commit.
AddConflict(dbs, db_info) ==
    IF db_info.id \in DOMAIN dbs THEN "id"
    ELSE IF \E i \in DOMAIN dbs : dbs[i].db_type = db_info.db_type THEN "type"
    ELSE "none"

\* AppState::get_database_by_type(..).is_some()
HasType(dbs, t) == \E i \in DOMAIN dbs : as_str(dbs[i].db_type) = t

(***************************************************************************)
(* The state file                                                          *)
(***************************************************************************)
\* serde of DatabaseStatus (rename_all = "lowercase"), written and read back.
status_to_json(st) ==
    CASE st = "Running" -> "running"
      [] st = "Stopped" -> "stopped"
      [] OTHER -> "notinstalled"

status_from_json(w) ==
    CASE w = "running" -> "Running"
      [] w = "stopped" -> "Stopped"
      [] OTHER -> "NotInstalled"

\* Serialize for DatabaseInfo: db_type is written under the key "type", an
\* Option is null (the empty tuple) or its value.
to_json(db_info) ==
    [id |-> db_info.id, type |-> as_str(db_info.db_type),
     status |-> status_to_json(db_info.status), auto_start |-> db_info.auto_start,
     pid |-> IF db_info.pid = NoPid THEN << >> ELSE <<db_info.pid>>,
     port |-> db_info.port, data_path |-> db_info.data_path,
     updated_at |-> db_info.updated_at]

\* A reader that does not take the pid from the file.
from_jsonSkipPid(j) ==
    DatabaseInfo(j.id, j.type, status_from_json(j.status), j.auto_start,
                 NoPid, j.port, j.data_path, j.updated_at)

\* Deserialize for DatabaseInfo.
from_json(j) ==
    DatabaseInfo(j.id, j.type, status_from_json(j.status), j.auto_start,
                 IF j.pid = << >> THEN NoPid ELSE j.pid[1],
                 j.port, j.data_path, j.updated_at)

\* The file: absent, unparsable, or the JSON text of an AppStateData.
StateFile(kind, dbs, s) ==
    [kind |-> kind, databases |-> {to_json(r) : r \in dbs}, settings |-> s]

FileAbsent == StateFile("absent", {}, GlobalSettingsDefault)

\* A file serde_json cannot parse; its text still holds what was once saved.
FileCorrupt ==
    StateFile("corrupt",
              {DatabaseInfo("1", "qdrant", "Running", FALSE, NoPid, 6333, "qdrant", 1)},
              [theme |-> "dark"])

FileOneRunning ==
    StateFile("ok",
              {DatabaseInfo("1", "mysql", "Running", FALSE, NoPid, 3306, "mysql", 1)},
              GlobalSettingsDefault)

FileTwo ==
    StateFile("ok",
              {DatabaseInfo("1", "mysql", "Stopped", TRUE, NoPid, 3306, "mysql", 1),
               DatabaseInfo("2", "qdrant", "Running", FALSE, NoPid, 6333, "qdrant", 2)},
              [theme |-> "dark"])


\* A file with one record, saved as Stopped.
FileOneStopped ==
    StateFile("ok",
              {DatabaseInfo("1", "mysql", "Stopped", FALSE, NoPid, 3306, "mysql", 1)},
              GlobalSettingsDefault)

\* A file that lists two records of one engine type under different ids.
FileTwoOfOneType ==
    StateFile("ok",
              {DatabaseInfo("1", "mysql", "Stopped", FALSE, NoPid, 3306, "mysql", 1),
               DatabaseInfo("2", "mysql", "Stopped", FALSE, NoPid, 3307, "mysql", 2)},
              GlobalSettingsDefault)

\* A loader that parses whatever file exists.
load_stateNoFallback(f) ==
    IF f.kind # "absent"
    THEN [databases |-> {from_json(j) : j \in f.databases}, settings |-> f.settings]
    ELSE [databases |-> {}, settings |-> GlobalSettingsDefault]

\* AppState::load_state, with the fallback of AppState::new on Err.
load_state(f) ==
    IF f.kind = "ok"
    THEN [databases |-> {from_json(j) : j \in f.databases}, settings |-> f.settings]
    ELSE [databases |-> {}, settings |-> GlobalSettingsDefault]

(***************************************************************************)
(* Homebrew                                                                *)
(***************************************************************************)
ListPrefixOnly == <<"mysql", "@5.7">> :> "started"

ListTwoStarted == <<"mysql", "@8.4">> :> "started" @@ <<"mysql", "@5.7">> :> "started"

ListAliasOrder == <<"mysql", "@8.4">> :> "stopped" @@ <<"mysql">> :> "started"

ListStopped == <<"mysql", "@8.4">> :> "stopped"

ListStarted == <<"mysql", "@8.4">> :> "started"

\* MySQL is listed stopped next to a started service that is no engine's.
ListOtherStarted == <<"mysql", "@8.4">> :> "stopped" @@ <<"nginx">> :> "started"

\* get_all_homebrew_services_status: name -> (status word = "started"); empty on failure.
get_all_homebrew_services_status(up, list) ==
    IF up THEN [n \in DOMAIN list |-> list[n] = "started"] ELSE EmptyMap

\* Homebrew::get_service_status: two substring tests on the whole listing text.
get_service_status(list, service) ==
    /\ \E n \in DOMAIN list : StartsWith(n, service)
    /\ \E n \in DOMAIN list : list[n] = "started"

\* get_homebrew_service_status: Option<bool>, "none" when brew does not answer.
get_homebrew_service_status(up, list, service) ==
    IF up THEN (IF get_service_status(list, service) THEN "true" ELSE "false") ELSE "none"

\* get_installed_databases_from_homebrew: a formula counts as installed when
\* brew lists a service under the formula's own name.
get_installed_databases_from_homebrew(up, list) ==
    IF up THEN {t \in {"redis", "mysql", "postgresql", "mongodb", "surrealdb"} :
                  get_brew_service_name(t) \in DOMAIN list}
    ELSE {}

\* A matching that reports Running when any alias is started.
FirstAliasAnyStarted(brew_services, aliases) ==
    IF \E i \in 1..Len(aliases) :
          aliases[i] \in DOMAIN brew_services /\ brew_services[aliases[i]]
    THEN "Running" ELSE "Stopped"

\* get_database_status_from_brew, folded over the aliases of a type (first match wins).
RECURSIVE FirstAlias(_, _)
FirstAlias(brew_services, aliases) ==
    IF aliases = << >> THEN "Stopped"
    ELSE IF Head(aliases) \in DOMAIN brew_services
         THEN (IF brew_services[Head(aliases)] THEN "Running" ELSE "Stopped")
         ELSE FirstAlias(brew_services, Tail(aliases))

\* The same probe, taking a sidecar file it cannot parse for a running process.
check_pid_file_statusLenient(pf) ==
    IF pf = "missing" THEN "Stopped"
    ELSE IF pf \in {"live", "garbage"} THEN "Running"
    ELSE "Stopped"

\* check_pid_file_status over the observed state of the sidecar file.
check_pid_file_status(pf) ==
    IF pf = "missing" THEN "Stopped"
    ELSE IF pf = "live" THEN "Running"
    ELSE "Stopped"

\* The match of sync_databases_status that computes actual_status.
ActualStatus(plat, db_info, brew_services, pidFiles) ==
    IF plat = "macos"
    THEN IF db_info.db_type \in PidFileTypes
         THEN check_pid_file_status(pidFiles[db_info.db_type])
         ELSE FirstAlias(brew_services, BrewAliases(db_info.db_type))
    ELSE check_pid_file_status(pidFiles[db_info.db_type])

(***************************************************************************)
(* Thread locals                                                           *)
(***************************************************************************)
Idle ==
    [pc |-> "idle", op |-> "", id |-> "", flag |-> FALSE,
     info |-> NoInfo, seen |-> NoInfo,
     success |-> FALSE, message |-> "", calls |-> {}, wrote |-> FALSE,
     after |-> "", snapDb |-> {}, snapSet |-> GlobalSettingsDefault, saveOk |-> TRUE,
     todo |-> {}, brew |-> EmptyMap, reg |-> {}, svcs |-> {},
     corrections |-> 0, probes |-> {}, snapIds |-> {}, prev |-> EmptyMap, hasPrev |-> FALSE,
     post |-> EmptyMap, emits |-> 0, payload |-> {},
     stopOk |-> FALSE, stopMsg |-> "", port |-> NoPort, task |-> "", installOk |-> FALSE,
     listOk |-> FALSE]

NoQuiet == [valid |-> FALSE, prev |-> EmptyMap, runner |-> ""]

Resting(p) == th[p].pc \in {"idle", "done"}

\* A thread takes a new command when its last one has returned. The threads
\* are interchangeable, so the second one is only used while the first is busy.
CanInvoke(p) ==
    /\ phase = "ready"
    /\ Resting(p)
    /\ ops < MaxOps
    /\ (p = "t1" \/ ~Resting("t1"))

\* The situations the application is launched in: the build, the state file
\* it finds and what Homebrew reports.
Boot(plat, f, up, list) == [platform |-> plat, file |-> f, up |-> up, list |-> list]

BootChoices ==
    { Boot("macos", FileAbsent,     TRUE,  ListPrefixOnly),
      Boot("macos", FileAbsent,     TRUE,  ListTwoStarted),
      Boot("macos", FileOneRunning, TRUE,  ListAliasOrder),
      Boot("macos", FileOneRunning, FALSE, ListStarted),
      Boot("macos", FileTwo,        TRUE,  ListStopped),
      Boot("macos", FileOneStopped, TRUE,  ListOtherStarted),
      Boot("macos", FileCorrupt,    TRUE,  ListAliasOrder),
      Boot("other", FileAbsent,     FALSE, EmptyMap),
      Boot("other", FileOneRunning, FALSE, EmptyMap),
      Boot("other", FileTwo,        FALSE, EmptyMap),
      Boot("other", FileTwoOfOneType, FALSE, EmptyMap) }

Init ==
    /\ \E b \in BootChoices :
          /\ platform = b.platform
          /\ file = b.file
          /\ brewUp = b.up
          /\ brewList = b.list
          /\ dataDirs = {r.data_path : r \in b.file.databases}
    /\ phase = "boot"
    /\ loaded = {}
    /\ clock = 3
    /\ databases = EmptyMap
    /\ settings = GlobalSettingsDefault
    /\ tasks = EmptyMap
    /\ ticker = EmptyMap
    /\ mock_pids = EmptyMap
    /\ next_pid = FirstMockPid
    /\ pidFile = [t \in InTypes |-> "missing"]
    /\ th = [p \in Procs |-> Idle]
    /\ ops = 0
    /\ saveFailed = FALSE
    /\ quiet = NoQuiet

\* The status refresh of AppState::new for one loaded record (macOS only).
RefreshAtStartup(plat, up, list, db_info) ==
    LET st == get_homebrew_service_status(up, list, get_brew_service_name(db_info.db_type))
    IN  IF plat = "macos" /\ st # "none"
        THEN [db_info EXCEPT !.status = IF st = "true" THEN "Running" ELSE "Stopped",
                             !.pid = NoPid, !.updated_at = get_timestamp(db_info)]
        ELSE db_info

\* AppState::create_info_from_homebrew.
create_info_from_homebrew(t, is_running) ==
    DatabaseInfo("homebrew-sync-" \o as_str(t), t,
                 IF is_running THEN "Running" ELSE "Stopped",
                 FALSE, NoPid, default_port(t), get_db_data_path(t), CreatedAt)

\* AppState::sync_with_homebrew over the map built from the file.
sync_with_homebrew(dbs, up, list) ==
    LET missing == {t \in get_installed_databases_from_homebrew(up, list) : ~HasType(dbs, t)}
        made(t) == create_info_from_homebrew(
                       t, get_homebrew_service_status(up, list, get_brew_service_name(t)) = "true")
    IN  [i \in DOMAIN dbs \cup {made(t).id : t \in missing} |->
            IF i \in DOMAIN dbs THEN dbs[i]
            ELSE (CHOOSE r \in {made(t) : t \in missing} : r.id = i)]

\* AppState::new: load, refresh, sync with Homebrew, save (result ignored).
AppStateNew ==
    /\ phase = "boot"
    /\ LET state_data == load_state(file)
           refreshed == {RefreshAtStartup(platform, brewUp, brewList, r) : r \in state_data.databases}
           map == [i \in {r.id : r \in refreshed} |-> CHOOSE r \in refreshed : r.id = i]
           synced == IF platform = "macos" THEN sync_with_homebrew(map, brewUp, brewList) ELSE map
       IN  /\ databases' = synced
           /\ loaded' = state_data.databases
           /\ settings' = state_data.settings
           /\ \E ok \in BOOLEAN :
                 /\ file' = IF ok THEN StateFile("ok", Values(synced), state_data.settings) ELSE file
                 /\ saveFailed' = ~ok
           /\ th' = [th EXCEPT !["t1"] =
                        [Idle EXCEPT !.pc = "boot_loop", !.op = "boot",
                                     !.todo = {r \in Values(synced) : r.auto_start}]]
    /\ phase' = "autostart"
    /\ UNCHANGED <<platform, clock, tasks, ticker, mock_pids, next_pid, env>>


(***************************************************************************)
(* Provisioning backend                                                    *)
(***************************************************************************)
\* macos::start_service_for_database; ok is whether it returns Ok(()).
start_service_for_database(db_info, ok) ==
    LET t == db_info.db_type
        svc == RecipeServiceName(t)
    IN  IF t \in PidFileTypes
        THEN /\ UNCHANGED <<brewUp, brewList, dataDirs>>
             /\ \/ /\ pidFile[t] = "live" /\ ok          \* already running: Ok without a spawn
                   /\ UNCHANGED pidFile
                \/ /\ pidFile[t] # "live" /\ ok          \* stale file removed, spawned, pid written
                   /\ pidFile' = [pidFile EXCEPT ![t] = "live"]
                \/ /\ pidFile[t] # "live" /\ ~ok         \* spawn failed or the child died at once
                   /\ pidFile' = [pidFile EXCEPT ![t] = "missing"]
                \/ /\ ~ok                                \* binary not found
                   /\ UNCHANGED pidFile
        ELSE /\ UNCHANGED <<brewUp, pidFile, dataDirs>>
             /\ \/ /\ brewUp /\ svc \in DOMAIN brewList /\ ok
                   /\ brewList' = [brewList EXCEPT ![svc] = "started"]
                \/ /\ ~ok
                   /\ UNCHANGED brewList

\* macos::stop_service_for_database; ok is whether it returns Ok(()).
stop_service_for_database(db_info, ok) ==
    LET t == db_info.db_type
        svc == RecipeServiceName(t)
    IN  IF t \in PidFileTypes
        THEN /\ UNCHANGED <<brewUp, brewList, dataDirs>>
             /\ \/ /\ pidFile[t] = "missing" /\ ok       \* no sidecar file: nothing to do
                   /\ UNCHANGED pidFile
                \/ /\ pidFile[t] = "live" /\ ok          \* SIGTERM sent, file removed
                   /\ pidFile' = [pidFile EXCEPT ![t] = "missing"]
                \/ /\ pidFile[t] # "missing" /\ ~ok      \* read, parse or kill failed: `?` returns early
                   /\ UNCHANGED pidFile
        ELSE /\ UNCHANGED <<brewUp, pidFile, dataDirs>>
             /\ \/ /\ brewUp /\ svc \in DOMAIN brewList /\ ok
                   /\ brewList' = [brewList EXCEPT ![svc] = "none"]
                \/ /\ ~ok
                   /\ UNCHANGED brewList

\* DatabaseManager::get_status.
get_status(pids, db_info) ==
    IF db_info.status = "NotInstalled" THEN "NotInstalled"
    ELSE IF db_info.id \in DOMAIN pids THEN "Running"
    ELSE "Stopped"

\* The guard of DatabaseManager::start_database: "" when the start may proceed.
StartGuard(plat, pids, db_info) ==
    IF plat = "macos"
    THEN IF db_info.status = "NotInstalled" THEN "Database is not installed"
         ELSE IF db_info.status = "Running" THEN "Database is already running"
         ELSE ""
    ELSE IF db_info.status = "NotInstalled" THEN "Database is not installed"
         ELSE IF get_status(pids, db_info) = "Running" THEN "Database is already running"
         ELSE ""

\* The guard of DatabaseManager::stop_database: "" when the stop may proceed.
StopGuard(plat, pids, db_info) ==
    IF plat = "macos"
    THEN IF db_info.status # "Running" THEN "Database is not running" ELSE ""
    ELSE IF get_status(pids, db_info) # "Running" THEN "Database is not running" ELSE ""

(***************************************************************************)
(* Thread steps                                                            *)
(***************************************************************************)
Goto(p, fields) == th' = [th EXCEPT ![p] = fields]

Done(p, cur, ok, msg) ==
    Goto(p, [cur EXCEPT !.pc = "done", !.success = ok, !.message = msg])

\* A start whose record is written back whatever DatabaseManager reported.
AfterStartAlways(cur, ok, msg) ==
    IF cur.op = "boot"
    THEN [cur EXCEPT !.pc = "update", !.after = "boot_loop", !.success = ok, !.message = msg]
    ELSE [cur EXCEPT !.pc = "update", !.success = ok, !.message = msg]

\* Where a command goes once DatabaseManager::start_database has returned Ok(result).
AfterStart(cur, ok, msg) ==
    IF cur.op = "boot"
    THEN [cur EXCEPT !.pc = "update", !.after = "boot_loop", !.success = ok, !.message = msg]
    ELSE [cur EXCEPT !.pc = IF ok THEN "update" ELSE "done", !.success = ok, !.message = msg]

\* ... and once it has returned Err(e) (ensure_dir failed).
AfterStartErr(cur) ==
    IF cur.op = "boot"
    THEN [cur EXCEPT !.pc = "boot_loop", !.success = FALSE, !.message = "Failed to start database"]
    ELSE [cur EXCEPT !.pc = "done", !.success = FALSE, !.message = "Failed to start database"]

\* Where a command goes once DatabaseManager::stop_database has returned Ok(result).
AfterStop(cur, ok, msg) ==
    CASE cur.op = "stop" ->
            [cur EXCEPT !.pc = IF ok THEN "update" ELSE "done", !.success = ok, !.message = msg,
                        !.stopOk = ok, !.stopMsg = msg]
      [] cur.op = "restart" ->
            [cur EXCEPT !.pc = "sleep", !.stopOk = ok, !.stopMsg = msg]
      [] cur.op = "delete" ->
            [cur EXCEPT !.pc = IF cur.flag THEN "rm_data" ELSE "remove",
                        !.stopOk = ok, !.stopMsg = msg]

\* A lookup that answers an unknown id with a blank record instead of None.
get_databaseOrBlank(dbs, id) ==
    IF id \in DOMAIN dbs THEN dbs[id]
    ELSE DatabaseInfo(id, "mysql", "Stopped", FALSE, NoPid, default_port("mysql"), "", CreatedAt)

\* AppState::get_database: a clone of the record under the lock, or None.
get_database(dbs, id) == IF id \in DOMAIN dbs THEN dbs[id] ELSE NoInfo

\* A command is invoked: state.get_database(&id) under the record-map lock.
Invoke(p) ==
    /\ CanInvoke(p)
    /\ ops' = ops + 1
    /\ \E op \in {"start", "stop", "restart", "delete", "autostart"},
          id \in DOMAIN databases \cup {"404"}, b \in BOOLEAN :
          LET db_info == get_database(databases, id)
              found == db_info # NoInfo
              base == [Idle EXCEPT !.op = op, !.id = id, !.flag = b,
                                   !.info = db_info, !.seen = db_info]
          IN  /\ (op \in {"start", "stop", "restart"} => ~b)
              /\ IF ~found
                 THEN /\ Done(p, base, FALSE, "Database not found")
                      /\ UNCHANGED clock
                 ELSE CASE op = "start" -> Goto(p, [base EXCEPT !.pc = "dm_start"]) /\ UNCHANGED clock
                        [] op \in {"stop", "restart"} ->
                              Goto(p, [base EXCEPT !.pc = "dm_stop"]) /\ UNCHANGED clock
                        [] op = "delete" -> Goto(p, [base EXCEPT !.pc = "del_status"]) /\ UNCHANGED clock
                        [] op = "autostart" ->
                              /\ UNCHANGED clock
                              /\ Goto(p, [base EXCEPT !.pc = "update",
                                                      !.info = [db_info EXCEPT !.auto_start = b,
                                                                               !.updated_at = get_timestamp(db_info)],
                                                      !.success = TRUE,
                                                      !.message = "Autostart setting updated"])
    /\ UNCHANGED <<saveFailed, platform, phase, databases, settings, tasks, ticker, file, mock_pids, next_pid, env>>

\* DatabaseManager::start_database, macOS: guard, backend call, local mutation.
DmStartMac(p) ==
    /\ platform = "macos"
    /\ th[p].pc = "dm_start"
    /\ LET cur == th[p]
           g == StartGuard(platform, mock_pids, cur.info)
       IN  IF g # ""
           THEN /\ Goto(p, AfterStart(cur, FALSE, g))
                /\ UNCHANGED env
           ELSE \E ok \in BOOLEAN :
                  /\ start_service_for_database(cur.info, ok)
                  /\ IF ok
                     THEN Goto(p, AfterStart([cur EXCEPT !.calls = @ \cup {"start"},
                                                            !.info = [@ EXCEPT !.status = "Running",
                                                                               !.pid = NoPid,
                                                                               !.updated_at = get_timestamp(cur.info)]],
                                                TRUE, "started successfully"))
                     ELSE Goto(p, AfterStart([cur EXCEPT !.calls = @ \cup {"start"}],
                                                FALSE, "Failed to start via Homebrew"))
    /\ UNCHANGED <<saveFailed, platform, phase, clock, databases, settings, tasks, ticker, file, mock_pids, next_pid>>

\* DatabaseManager::start_database, other builds: is_installed and get_status (mock_pids lock).
DmStartCheck(p) ==
    /\ platform = "other"
    /\ th[p].pc = "dm_start"
    /\ LET cur == th[p]
           g == StartGuard(platform, mock_pids, cur.info)
       IN  IF g # "" THEN Goto(p, AfterStart(cur, FALSE, g))
           ELSE Goto(p, [cur EXCEPT !.pc = "dm_start2"])
    /\ UNCHANGED <<saveFailed, platform, phase, clock, databases, settings, tasks, ticker, file, mock_pids, next_pid, env>>

\* ... then ensure_dir twice and start_mock_process (next_pid lock, mock_pids lock).
DmStartMock(p) ==
    /\ platform = "other"
    /\ th[p].pc = "dm_start2"
    /\ LET cur == th[p] IN
       \/ /\ Goto(p, AfterStartErr(cur))                         \* ensure_dir failed: Err(e)
          /\ UNCHANGED <<mock_pids, next_pid, dataDirs>>
       \/ /\ dataDirs' = dataDirs \cup {cur.info.data_path}
          /\ mock_pids' = (cur.info.id :> next_pid) @@ mock_pids
          /\ next_pid' = next_pid + 1
          /\ Goto(p, AfterStart([cur EXCEPT !.calls = @ \cup {"start"},
                                            !.info = [@ EXCEPT !.status = "Running",
                                                               !.pid = next_pid,
                                                               !.updated_at = get_timestamp(cur.info)]],
                                TRUE, "started successfully"))
    /\ UNCHANGED <<saveFailed, platform, phase, clock, databases, settings, tasks, ticker, file, brewUp, brewList, pidFile>>

\* DatabaseManager::stop_database, macOS.
DmStopMac(p) ==
    /\ platform = "macos"
    /\ th[p].pc = "dm_stop"
    /\ LET cur == th[p]
           g == StopGuard(platform, mock_pids, cur.info)
       IN  IF g # ""
           THEN /\ Goto(p, AfterStop(cur, FALSE, g))
                /\ UNCHANGED env
           ELSE \E ok \in BOOLEAN :
                  /\ stop_service_for_database(cur.info, ok)
                  /\ IF ok
                     THEN Goto(p, AfterStop([cur EXCEPT !.calls = @ \cup {"stop"},
                                                           !.info = [@ EXCEPT !.status = "Stopped",
                                                                              !.pid = NoPid,
                                                                              !.updated_at = get_timestamp(cur.info)]],
                                               TRUE, "stopped successfully"))
                     ELSE Goto(p, AfterStop([cur EXCEPT !.calls = @ \cup {"stop"}],
                                               FALSE, "Failed to stop via Homebrew"))
    /\ UNCHANGED <<saveFailed, platform, phase, clock, databases, settings, tasks, ticker, file, mock_pids, next_pid>>

\* DatabaseManager::stop_database, other builds: get_status (mock_pids lock).
DmStopCheck(p) ==
    /\ platform = "other"
    /\ th[p].pc = "dm_stop"
    /\ LET cur == th[p]
           g == StopGuard(platform, mock_pids, cur.info)
       IN  IF g # "" THEN Goto(p, AfterStop(cur, FALSE, g))
           ELSE Goto(p, [cur EXCEPT !.pc = "dm_stop2"])
    /\ UNCHANGED <<saveFailed, platform, phase, clock, databases, settings, tasks, ticker, file, mock_pids, next_pid, env>>

\* ... then stop_mock_process (mock_pids lock) and the local mutation.
DmStopMock(p) ==
    /\ platform = "other"
    /\ th[p].pc = "dm_stop2"
    /\ mock_pids' = Without(mock_pids, th[p].info.id)
    /\ Goto(p, AfterStop([th[p] EXCEPT !.calls = @ \cup {"stop"},
                                       !.info = [@ EXCEPT !.status = "Stopped",
                                                          !.pid = NoPid,
                                                          !.updated_at = get_timestamp(th[p].info)]],
                         TRUE, "stopped successfully"))
    /\ UNCHANGED <<saveFailed, platform, phase, clock, databases, settings, tasks, ticker, file, next_pid, env>>

\* restart_database: the 2 second cooldown, then the start step.
RestartSleep(p) ==
    /\ th[p].pc = "sleep"
    /\ Goto(p, [th[p] EXCEPT !.pc = "dm_start"])
    /\ UNCHANGED <<saveFailed, platform, phase, clock, databases, settings, tasks, ticker, file, mock_pids, next_pid, env>>

\* delete_database: db_manager.get_status(&db_info) == Running decides whether to stop first.
DeleteStatus(p) ==
    /\ th[p].pc = "del_status"
    /\ LET cur == th[p] IN
       IF get_status(mock_pids, cur.info) = "Running"
       THEN Goto(p, [cur EXCEPT !.pc = "dm_stop"])
       ELSE Goto(p, [cur EXCEPT !.pc = IF cur.flag THEN "rm_data" ELSE "remove"])
    /\ UNCHANGED <<saveFailed, platform, phase, clock, databases, settings, tasks, ticker, file, mock_pids, next_pid, env>>

\* delete_database: std::fs::remove_dir_all(&db_info.data_path).
DeleteData(p) ==
    /\ th[p].pc = "rm_data"
    /\ LET cur == th[p] IN
       \/ /\ cur.info.data_path \in dataDirs
          /\ dataDirs' = dataDirs \ {cur.info.data_path}
          /\ Goto(p, [cur EXCEPT !.pc = "remove", !.calls = @ \cup {"rm_data"}])
       \/ /\ Done(p, cur, FALSE, "Failed to delete data")
          /\ UNCHANGED dataDirs
    /\ UNCHANGED <<saveFailed, platform, phase, clock, databases, settings, tasks, ticker, file, mock_pids, next_pid,
                   brewUp, brewList, pidFile>>

\* AppState::remove_database: the removal under the lock; save_state follows.
RemoveDatabase(p) ==
    /\ th[p].pc = "remove"
    /\ databases' = Without(databases, th[p].id)
    /\ Goto(p, [th[p] EXCEPT !.pc = "save_db", !.wrote = TRUE, !.success = TRUE,
                             !.message = "Database deleted successfully"])
    /\ UNCHANGED <<saveFailed, platform, phase, clock, settings, tasks, ticker, file, mock_pids, next_pid, env>>

\* AppState::update_database: evict and insert under the lock; save_state follows.
UpdateStep(p) ==
    /\ th[p].pc = "update"
    /\ databases' = UpdateDatabase(databases, th[p].info)
    /\ Goto(p, [th[p] EXCEPT !.pc = "save_db", !.wrote = TRUE])
    /\ UNCHANGED <<saveFailed, platform, phase, clock, settings, tasks, ticker, file, mock_pids, next_pid, env>>


(***************************************************************************)
(* save_state / save_app_state: three critical sections, none of them the  *)
(* one that made the mutation.                                             *)
(***************************************************************************)
\* Where a thread goes once save_state has returned ok.
AfterSave(cur, ok) ==
    LET c == [cur EXCEPT !.saveOk = ok, !.snapDb = {}, !.snapSet = GlobalSettingsDefault]
    IN  CASE c.op \in {"sync", "boot"} -> [c EXCEPT !.pc = c.after]
          [] c.op = "install" -> [c EXCEPT !.pc = "w_finish"]
          [] c.op = "add" ->
                [c EXCEPT !.pc = "done", !.success = ok,
                          !.message = IF ok THEN "" ELSE "Failed to write state file"]
          [] OTHER -> [c EXCEPT !.pc = "done"]

\* ensure_state_dir, then the snapshot of the record map under its lock.
SaveDb(p) ==
    /\ th[p].pc = "save_db"
    /\ \/ /\ Goto(p, [th[p] EXCEPT !.pc = "save_settings", !.snapDb = Values(databases)])
          /\ UNCHANGED saveFailed
       \/ /\ Goto(p, AfterSave(th[p], FALSE))          \* create_dir_all failed
          /\ saveFailed' = TRUE
    /\ UNCHANGED <<platform, phase, clock, databases, settings, tasks, ticker, file, mock_pids, next_pid, env>>

\* The snapshot of the settings under their lock.
SaveSettings(p) ==
    /\ th[p].pc = "save_settings"
    /\ Goto(p, [th[p] EXCEPT !.pc = "save_write", !.snapSet = settings])
    /\ UNCHANGED <<saveFailed, platform, phase, clock, databases, settings, tasks, ticker, file,
                   mock_pids, next_pid, env>>

\* A writer that stores the record list only and keeps the file's settings.
SaveWriteRecordsOnly(p) ==
    /\ th[p].pc = "save_write"
    /\ \E ok \in BOOLEAN :
          /\ file' = IF ok THEN StateFile("ok", th[p].snapDb, load_state(file).settings) ELSE file
          /\ saveFailed' = (saveFailed \/ ~ok)
          /\ Goto(p, AfterSave(th[p], ok))
    /\ UNCHANGED <<platform, phase, clock, databases, settings, tasks, ticker, mock_pids, next_pid, env>>

\* fs::write of the serialized snapshot, with no lock held.
SaveWrite(p) ==
    /\ th[p].pc = "save_write"
    /\ \E ok \in BOOLEAN :
          /\ file' = IF ok THEN StateFile("ok", th[p].snapDb, th[p].snapSet) ELSE file
          /\ saveFailed' = (saveFailed \/ ~ok)
          /\ Goto(p, AfterSave(th[p], ok))
    /\ UNCHANGED <<platform, phase, clock, databases, settings, tasks, ticker, mock_pids, next_pid, env>>

(***************************************************************************)
(* start_autostart_databases, run once by the setup hook                   *)
(***************************************************************************)
BootLoop(p) ==
    /\ phase = "autostart"
    /\ th[p].pc = "boot_loop"
    /\ IF th[p].todo = {}
       THEN /\ phase' = "ready"
            /\ Goto(p, Idle)
       ELSE /\ \E r \in th[p].todo :
                 Goto(p, [th[p] EXCEPT !.pc = "dm_start", !.todo = @ \ {r}, !.info = r,
                                       !.seen = r, !.id = r.id])
            /\ UNCHANGED phase
    /\ UNCHANGED <<saveFailed, platform, clock, databases, settings, tasks, ticker, file,
                   mock_pids, next_pid, env>>

(***************************************************************************)
(* update_settings and add_database                                        *)
(***************************************************************************)
\* AppState::update_settings: replace under the settings lock; save_state follows.
UpdateSettings(p) ==
    /\ CanInvoke(p)
    /\ ops' = ops + 1
    /\ \E s \in SettingsInputs :
          /\ settings' = s
          /\ Goto(p, [Idle EXCEPT !.pc = "save_db", !.op = "settings", !.wrote = TRUE,
                                  !.success = TRUE, !.message = "Settings updated successfully"])
    /\ UNCHANGED <<saveFailed, platform, phase, clock, databases, tasks, ticker, file, mock_pids,
                   next_pid, env>>

\* AppState::add_database: both checks and the insert are one critical section.
AddDatabase(p) ==
    /\ CanInvoke(p)
    /\ ops' = ops + 1
    /\ \E id \in DOMAIN databases \cup {generate_id(clock)}, t \in InTypes :
          LET r == DatabaseInfo(id, t, "Stopped", FALSE, NoPid, default_port(t),
                                get_db_data_path(t), CreatedAt)
              c == AddConflict(databases, r)
              base == [Idle EXCEPT !.op = "add", !.id = id, !.info = r]
          IN  IF c = "id"
              THEN /\ Done(p, base, FALSE, "Database id already exists")
                   /\ UNCHANGED databases
              ELSE IF c = "type"
              THEN /\ Done(p, base, FALSE, "Database type already exists")
                   /\ UNCHANGED databases
              ELSE /\ databases' = (id :> r) @@ databases
                   /\ Goto(p, [base EXCEPT !.pc = "save_db", !.wrote = TRUE])
    /\ clock' = clock + 1
    /\ UNCHANGED <<saveFailed, platform, phase, settings, tasks, ticker, file, mock_pids, next_pid, env>>

(***************************************************************************)
(* install_database and its worker thread                                  *)
(***************************************************************************)
InstallTypes == InTypes \cup {"neo4j"}

\* The port an installer falls back on: recipe.port of HomebrewDatabaseRecipe,
\* and the literals of the Qdrant and SurrealDB installers.
recipe_port(t) ==
    CASE t = "redis" -> 6379
      [] t = "mysql" -> 3306
      [] t = "postgresql" -> 5432
      [] t = "mongodb" -> 27017
      [] t = "surrealdb" -> 8000
      [] t = "qdrant" -> 6333

\* options.port.unwrap_or(recipe.port).
install_port(t, port) == IF port = NoPort THEN recipe_port(t) ELSE port

\* The Err(String) a platform install returns.
InstallError == "install error"

PortInputs == {NoPort, 3307}

\* install_database up to thread::spawn: the pre-check, the task, the returned id.
\* The thread then continues as the spawned worker.
InstallCall(p, t, port) ==
    /\ CanInvoke(p)
    /\ ops' = ops + 1
    /\ LET base == [Idle EXCEPT !.op = "install", !.id = t, !.port = port] IN
          IF HasType(databases, t)
          THEN /\ Done(p, base, FALSE, "Database type already installed")
               /\ UNCHANGED <<tasks, ticker, clock>>
          ELSE IF t \notin DatabaseType
          THEN /\ Done(p, base, FALSE, "Unsupported database type")
               /\ UNCHANGED <<tasks, ticker, clock>>
          ELSE /\ clock' = clock + 1
               /\ LET task_id == "install-" \o t \o "-" \o generate_id(clock) IN
                  /\ tasks' = (task_id :> AsyncTask("Pending", 0, NoError)) @@ tasks
                  /\ UNCHANGED ticker
                  /\ Goto(p, [base EXCEPT !.pc = "w_start", !.task = task_id, !.success = TRUE,
                                          !.message = task_id])
    /\ UNCHANGED <<saveFailed, platform, phase, databases, settings, file, mock_pids, next_pid, env>>

InstallInvoke(p) == \E t \in InstallTypes, port \in PortInputs : InstallCall(p, t, port)

\* update_progress(0, "Starting installation...") under the tasks lock, then
\* the spawn of the progress thread.
WorkerStart(p) ==
    /\ th[p].pc = "w_start"
    /\ tasks' = IF th[p].task \in DOMAIN tasks
                THEN [tasks EXCEPT ![th[p].task].status = "Running", ![th[p].task].progress = 0]
                ELSE tasks
    /\ ticker' = (th[p].task :> [pc |-> "sleep", current_progress |-> 0, progress_stop |-> FALSE])
                  @@ ticker
    /\ Goto(p, [th[p] EXCEPT !.pc = "w_install"])
    /\ UNCHANGED <<saveFailed, platform, phase, clock, databases, settings, file, mock_pids,
                   next_pid, env>>

\* The platform's install call (auto_start: true), with no lock held, and
\* progress_stop.store(true) once it has returned.
WorkerInstall(p) ==
    /\ th[p].pc = "w_install"
    /\ LET cur == th[p]
           t == cur.id
           port == install_port(t, cur.port)
           made(st) == DatabaseInfo(generate_id(clock), t, st, TRUE, NoPid, port,
                                    get_db_data_path(t), CreatedAt)
           ok(st) == /\ clock' = clock + 1
                     /\ dataDirs' = dataDirs \cup {get_db_data_path(t)}
                     /\ Goto(p, [cur EXCEPT !.pc = "w_commit", !.info = made(st), !.installOk = TRUE])
       IN  \/ /\ Goto(p, [cur EXCEPT !.pc = "w_finish", !.installOk = FALSE,
                                     !.message = "Installation failed"])
              /\ UNCHANGED <<clock, env>>
           \/ /\ platform = "macos" /\ t \notin PidFileTypes /\ brewUp
              /\ brewList' = (RecipeServiceName(t) :> "started") @@ brewList
              /\ ok("Running")
              /\ UNCHANGED <<brewUp, pidFile>>
           \/ /\ platform = "macos" /\ t \in PidFileTypes
              /\ \/ pidFile' = [pidFile EXCEPT ![t] = "live"] /\ ok("Running")
                 \/ pidFile' = [pidFile EXCEPT ![t] = "missing"] /\ ok("Stopped")
              /\ UNCHANGED <<brewUp, brewList>>
           \/ /\ platform = "other"
              /\ pidFile' = [pidFile EXCEPT ![t] = "live"]
              /\ ok("Running")
              /\ UNCHANGED <<brewUp, brewList>>
    /\ ticker' = [ticker EXCEPT ![th[p].task].progress_stop = TRUE]
    /\ UNCHANGED <<saveFailed, platform, phase, databases, settings, tasks, file, mock_pids, next_pid>>

\* The worker's commit: id check, type check and insert in one critical section.
WorkerCommit(p) ==
    /\ th[p].pc = "w_commit"
    /\ LET cur == th[p]
           c == AddConflict(databases, cur.info)
       IN  IF c = "none"
           THEN /\ databases' = (cur.info.id :> cur.info) @@ databases
                /\ Goto(p, [cur EXCEPT !.pc = "save_db", !.wrote = TRUE])
           ELSE /\ UNCHANGED databases
                /\ Goto(p, [cur EXCEPT !.pc = "w_finish", !.saveOk = FALSE,
                                       !.message = IF c = "id" THEN "Database id already exists"
                                                   ELSE "Database type already exists"])
    /\ UNCHANGED <<saveFailed, platform, phase, clock, settings, tasks, ticker, file, mock_pids, next_pid, env>>

\* The terminal task status, under the tasks lock.
WorkerFinish(p) ==
    /\ th[p].pc = "w_finish"
    /\ LET cur == th[p]
           good == cur.installOk /\ cur.saveOk
           error == IF cur.installOk THEN "Failed to add database to state" ELSE InstallError
       IN  /\ tasks' = IF cur.task \notin DOMAIN tasks THEN tasks
                       ELSE IF good
                       THEN [tasks EXCEPT ![cur.task].status = "Completed",
                                          ![cur.task].progress = ProgressDone]
                       ELSE [tasks EXCEPT ![cur.task].status = "Failed",
                                          ![cur.task].error = error]
           /\ Goto(p, [cur EXCEPT !.pc = "done"])
    /\ UNCHANGED <<saveFailed, platform, phase, clock, databases, settings, ticker, file, mock_pids,
                   next_pid, env>>

\* The progress thread's loop head, its one-second sleep, the second look at
\* progress_stop and the increment of its counter.
TickerWake(k) ==
    /\ ticker[k].pc = "sleep"
    /\ LET cur == ticker[k]
           next == IF cur.current_progress + ProgressStep > ProgressCap THEN ProgressCap
                   ELSE cur.current_progress + ProgressStep
       IN  IF cur.progress_stop \/ cur.current_progress >= ProgressCap
           THEN ticker' = [ticker EXCEPT ![k].pc = "ended", ![k].current_progress = 0]
           ELSE /\ cur.current_progress < ProgressStep * MaxTicks
                /\ ticker' = [ticker EXCEPT ![k].pc = "woke", ![k].current_progress = next]
    /\ UNCHANGED <<saveFailed, platform, phase, clock, databases, settings, tasks, file, mock_pids,
                   next_pid, env, th>>

\* A progress thread that writes its counter whatever the task's status.
TickerUpdateAnyStatus(k) ==
    /\ ticker[k].pc = "woke"
    /\ IF k \in DOMAIN tasks
       THEN /\ tasks' = [tasks EXCEPT ![k].progress = ticker[k].current_progress]
            /\ ticker' = [ticker EXCEPT ![k].pc = "sleep"]
       ELSE /\ ticker' = [ticker EXCEPT ![k].pc = "ended", ![k].current_progress = 0]
            /\ UNCHANGED tasks
    /\ UNCHANGED <<saveFailed, platform, phase, clock, databases, settings, file, mock_pids,
                   next_pid, env, th>>

\* The progress thread under the tasks lock: the counter is written only
\* while the task is still Running; otherwise the thread ends.
TickerUpdate(k) ==
    /\ ticker[k].pc = "woke"
    /\ IF k \in DOMAIN tasks /\ tasks[k].status = "Running"
       THEN /\ tasks' = [tasks EXCEPT ![k].progress = ticker[k].current_progress]
            /\ ticker' = [ticker EXCEPT ![k].pc = "sleep"]
       ELSE /\ ticker' = [ticker EXCEPT ![k].pc = "ended", ![k].current_progress = 0]
            /\ UNCHANGED tasks
    /\ UNCHANGED <<saveFailed, platform, phase, clock, databases, settings, file, mock_pids,
                   next_pid, env, th>>


(***************************************************************************)
(* sync_databases_status                                                   *)
(***************************************************************************)
\* First entry of service_mappings whose prefix matches and whose type is unregistered.
RECURSIVE FirstMapping(_, _, _)
FirstMapping(service_name, registered_types, mappings) ==
    IF mappings = << >> THEN ""
    ELSE IF StartsWith(service_name, Head(mappings).prefix)
            /\ Head(mappings).db_type \notin registered_types
         THEN Head(mappings).db_type
         ELSE FirstMapping(service_name, registered_types, Tail(mappings))

\* The record auto-discovery synthesizes for a started service.
DiscoveredInfo(t, now) ==
    DatabaseInfo(generate_id(now), t, "Running", FALSE, NoPid, DiscoveryPort(t),
                 ManagedByHomebrew, CreatedAt)

\* get_all_databases and the one batched `brew services list`.
SyncBegin(p) ==
    /\ CanInvoke(p)
    /\ ops' = ops + 1
    /\ LET alone == \A q \in Procs \ {p} : Resting(q) IN
       /\ Goto(p, [Idle EXCEPT !.pc = "sync_loop", !.op = "sync",
                               !.todo = Values(databases), !.snapIds = DOMAIN databases,
                               !.brew = IF platform = "macos"
                                        THEN get_all_homebrew_services_status(brewUp, brewList)
                                        ELSE EmptyMap,
                               !.listOk = brewUp,
                               !.hasPrev = (alone /\ quiet.valid),
                               !.prev = IF alone /\ quiet.valid THEN quiet.prev ELSE EmptyMap])
       /\ quiet' = IF alone THEN [quiet EXCEPT !.runner = p] ELSE NoQuiet
    /\ UNCHANGED <<saveFailed, platform, phase, clock, databases, settings, tasks, ticker, file,
                   mock_pids, next_pid, env>>

\* One iteration of the status loop: probe, compare, correct through update_database.
SyncRecord(p) ==
    /\ th[p].pc = "sync_loop"
    /\ th[p].todo # {}
    /\ \E r \in th[p].todo :
          LET cur == th[p]
              actual_status == ActualStatus(platform, r, cur.brew, pidFile)
              byPid == platform = "other" \/ r.db_type \in PidFileTypes
              probe == [id |-> r.id, byPid |-> byPid,
                        pf |-> IF byPid THEN pidFile[r.db_type] ELSE "",
                        listOk |-> cur.listOk, actual |-> actual_status]
              nxt == [cur EXCEPT !.todo = @ \ {r}, !.probes = @ \cup {probe}]
          IN  IF r.status # actual_status
              THEN /\ Goto(p, [nxt EXCEPT !.pc = "update", !.after = "sync_loop",
                                          !.corrections = @ + 1,
                                          !.info = [r EXCEPT !.status = actual_status,
                                                             !.updated_at = get_timestamp(r)]])
              ELSE Goto(p, nxt)
    /\ UNCHANGED <<saveFailed, platform, phase, clock, databases, settings, tasks, ticker, file,
                   mock_pids, next_pid, env, quiet>>

\* The loop is over; on macOS take the registered types (get_all_databases).
SyncRegistered(p) ==
    /\ th[p].pc = "sync_loop"
    /\ th[p].todo = {}
    /\ IF platform = "macos"
       THEN Goto(p, [th[p] EXCEPT !.pc = "sync_disc",
                                  !.reg = {databases[i].db_type : i \in DOMAIN databases},
                                  !.svcs = {n \in DOMAIN th[p].brew : th[p].brew[n]}])
       ELSE Goto(p, [th[p] EXCEPT !.pc = "sync_emit"])
    /\ UNCHANGED <<saveFailed, platform, phase, clock, databases, settings, tasks, ticker, file,
                   mock_pids, next_pid, env, quiet>>

\* One iteration of the auto-discovery loop over the started services.
SyncDiscover(p) ==
    /\ th[p].pc = "sync_disc"
    /\ LET cur == th[p] IN
       IF cur.svcs = {}
       THEN /\ Goto(p, [cur EXCEPT !.pc = "sync_emit"])
            /\ UNCHANGED clock
       ELSE \E n \in cur.svcs :
              LET t == FirstMapping(n, cur.reg, service_mappings)
                  nxt == [cur EXCEPT !.svcs = @ \ {n}]
              IN  IF t # ""
                  THEN /\ clock' = clock + 1
                       /\ Goto(p, [nxt EXCEPT !.pc = "update", !.after = "sync_disc",
                                              !.corrections = @ + 1,
                                              !.info = DiscoveredInfo(t, clock)])
                  ELSE /\ Goto(p, nxt)
                       /\ UNCHANGED clock
    /\ UNCHANGED <<saveFailed, platform, phase, databases, settings, tasks, ticker, file,
                   mock_pids, next_pid, env, quiet>>

\* A pass that notifies only when it corrected or discovered something.
SyncEmitIfChanged(p) ==
    /\ th[p].pc = "sync_emit"
    /\ Goto(p, [th[p] EXCEPT !.pc = "sync_ret",
                             !.emits = IF th[p].corrections > 0 THEN @ + 1 ELSE @,
                             !.payload = IF th[p].corrections > 0 THEN Values(databases) ELSE @])
    /\ UNCHANGED <<saveFailed, platform, phase, clock, databases, settings, tasks, ticker, file,
                   mock_pids, next_pid, env, quiet>>

\* emit("databases-updated", get_all_databases()).
SyncEmit(p) ==
    /\ th[p].pc = "sync_emit"
    /\ Goto(p, [th[p] EXCEPT !.pc = "sync_ret", !.emits = @ + 1, !.payload = Values(databases)])
    /\ UNCHANGED <<saveFailed, platform, phase, clock, databases, settings, tasks, ticker, file,
                   mock_pids, next_pid, env, quiet>>

\* The returned list: state.get_all_databases().
SyncReturn(p) ==
    /\ th[p].pc = "sync_ret"
    /\ LET undisturbed == quiet.runner = p IN
       /\ Goto(p, [th[p] EXCEPT !.pc = "done", !.success = TRUE,
                                !.post = StatusMap(databases),
                                !.hasPrev = (@ /\ undisturbed)])
       /\ quiet' = IF undisturbed
                   THEN [valid |-> TRUE, prev |-> StatusMap(databases), runner |-> ""]
                   ELSE NoQuiet
    /\ UNCHANGED <<saveFailed, platform, phase, clock, databases, settings, tasks, ticker, file,
                   mock_pids, next_pid, env>>

(***************************************************************************)
(* The world outside the application                                       *)
(***************************************************************************)
\* A supervised process exits, or its sidecar file is damaged.
PidFileChange ==
    /\ phase = "ready"
    /\ \E t \in InTypes, to \in {"dead", "garbage", "unreadable"} :
          /\ pidFile[t] = "live"
          /\ pidFile' = [pidFile EXCEPT ![t] = to]
    /\ UNCHANGED <<saveFailed, platform, phase, clock, databases, settings, tasks, ticker, file,
                   mock_pids, next_pid, brewUp, brewList, dataDirs, th>>

(***************************************************************************)
(* Specification                                                           *)
(***************************************************************************)
\* A step of thread p that is not one of the reconciler's own steps ends the
\* quiet period unless p is the undisturbed reconciler itself.
Disturb(p) ==
    /\ quiet' = IF th[p].op = "sync" /\ quiet.runner = p THEN quiet ELSE NoQuiet
    /\ UNCHANGED loaded

Keep(p) == Disturb(p) /\ UNCHANGED ops

Reconciling == UNCHANGED <<ops, loaded>>

Next ==
    \/ AppStateNew /\ UNCHANGED <<quiet, ops>>
    \/ PidFileChange /\ quiet' = NoQuiet /\ Reconciling
    \/ \E p \in Procs : BootLoop(p) /\ UNCHANGED <<quiet, ops, loaded>>
    \/ \E p \in Procs : Invoke(p) /\ Disturb(p)
    \/ \E p \in Procs : UpdateSettings(p) /\ Disturb(p)
    \/ \E p \in Procs : AddDatabase(p) /\ Disturb(p)
    \/ \E p \in Procs : InstallInvoke(p) /\ Disturb(p)
    \/ \E p \in Procs : SyncBegin(p) /\ UNCHANGED loaded
    \/ \E p \in Procs : DmStartMac(p) /\ Keep(p)
    \/ \E p \in Procs : DmStartCheck(p) /\ Keep(p)
    \/ \E p \in Procs : DmStartMock(p) /\ Keep(p)
    \/ \E p \in Procs : DmStopMac(p) /\ Keep(p)
    \/ \E p \in Procs : DmStopCheck(p) /\ Keep(p)
    \/ \E p \in Procs : DmStopMock(p) /\ Keep(p)
    \/ \E p \in Procs : RestartSleep(p) /\ Keep(p)
    \/ \E p \in Procs : DeleteStatus(p) /\ Keep(p)
    \/ \E p \in Procs : DeleteData(p) /\ Keep(p)
    \/ \E p \in Procs : RemoveDatabase(p) /\ Keep(p)
    \/ \E p \in Procs : UpdateStep(p) /\ Keep(p)
    \/ \E p \in Procs : SaveDb(p) /\ Keep(p)
    \/ \E p \in Procs : SaveSettings(p) /\ Keep(p)
    \/ \E p \in Procs : SaveWrite(p) /\ Keep(p)
    \/ \E p \in Procs : WorkerStart(p) /\ Keep(p)
    \/ \E p \in Procs : WorkerInstall(p) /\ Keep(p)
    \/ \E p \in Procs : WorkerCommit(p) /\ Keep(p)
    \/ \E p \in Procs : WorkerFinish(p) /\ Keep(p)
    \/ \E p \in Procs : SyncRecord(p) /\ Reconciling
    \/ \E p \in Procs : SyncRegistered(p) /\ Reconciling
    \/ \E p \in Procs : SyncDiscover(p) /\ Reconciling
    \/ \E p \in Procs : SyncEmit(p) /\ Reconciling
    \/ \E p \in Procs : SyncReturn(p) /\ Reconciling

Spec == Init /\ [][Next]_vars

\* One step of an install worker, from its spawn to the terminal task status.
WorkerStep(p) ==
    /\ th[p].op = "install"
    /\ \/ WorkerStart(p) \/ WorkerInstall(p) \/ WorkerCommit(p)
       \/ SaveDb(p) \/ SaveSettings(p) \/ SaveWrite(p) \/ WorkerFinish(p)
    /\ Keep(p)

\* The engines InstallSpec installs: one Homebrew service, one engine with a
\* PID file, one the application does not support.
InstallSpecTypes == {"mysql", "qdrant", "neo4j"}

\* A first launch: no state file yet.
InstallInit == Init /\ file = FileAbsent

\* The application from a first launch on, with install_database the only
\* command called and every install's progress thread beside its worker.
\* A progress thread writes nothing but its own task's progress, which no
\* other command reads, so Spec leaves its steps out and InstallSpec has them.
InstallNext ==
    \/ AppStateNew /\ UNCHANGED <<quiet, ops>>
    \/ \E p \in Procs : BootLoop(p) /\ UNCHANGED <<quiet, ops, loaded>>
    \/ \E p \in Procs, t \in InstallSpecTypes : InstallCall(p, t, NoPort) /\ Disturb(p)
    \/ \E p \in Procs : WorkerStart(p) /\ Keep(p)
    \/ \E p \in Procs : WorkerInstall(p) /\ Keep(p)
    \/ \E p \in Procs : WorkerCommit(p) /\ Keep(p)
    \/ \E p \in Procs : SaveDb(p) /\ Keep(p)
    \/ \E p \in Procs : SaveSettings(p) /\ Keep(p)
    \/ \E p \in Procs : SaveWrite(p) /\ Keep(p)
    \/ \E p \in Procs : WorkerFinish(p) /\ Keep(p)
    \/ \E k \in DOMAIN ticker : TickerWake(k) /\ UNCHANGED <<quiet, ops, loaded>>
    \/ \E k \in DOMAIN ticker : TickerUpdate(k) /\ UNCHANGED <<quiet, ops, loaded>>

\* The worker is a thread of its own and the operating system schedules it:
\* a worker that can take its next step eventually takes it. The step out of
\* the platform's install call is the call returning.
InstallSpec ==
    /\ InstallInit
    /\ [][InstallNext]_vars
    /\ \A p \in Procs : WF_vars(WorkerStep(p))

TypeOK ==
    /\ platform \in Platforms
    /\ phase \in {"boot", "autostart", "ready"}
    /\ clock \in 3..(3 + 2 * MaxOps)
    /\ ops \in 0..MaxOps
    /\ \A i \in DOMAIN databases : /\ databases[i].id = i
                                    /\ databases[i].status \in DatabaseStatus
                                    /\ databases[i].db_type \in DatabaseType
    /\ \A k \in DOMAIN tasks : /\ tasks[k].status \in TaskStatus
                                /\ tasks[k].progress \in 0..ProgressDone
    /\ DOMAIN ticker \subseteq DOMAIN tasks
    /\ \A k \in DOMAIN ticker : ticker[k].pc \in {"sleep", "woke", "ended"}
    /\ \A p \in Procs : th[p].pc \in {"idle", "done", "dm_start", "dm_start2", "dm_stop", "dm_stop2",
                                       "sleep", "del_status", "rm_data", "remove", "update",
                                       "save_db", "save_settings", "save_write", "boot_loop",
                                       "w_start", "w_install", "w_commit", "w_finish",
                                       "sync_loop", "sync_disc", "sync_emit", "sync_ret"}

(***************************************************************************)
(* Single instance per engine type                                         *)
(***************************************************************************)
SingleInstance(dbs) ==
    \A i, j \in DOMAIN dbs : i # j => dbs[i].db_type # dbs[j].db_type

\* C1: when startup loaded no record from the state file, the registry never
\* holds two records of one engine type, whatever install commits,
\* add_database, update_database, remove_database and reconciliation passes
\* have run or are running.
C1_SingleInstancePerType ==
    (phase # "boot" /\ loaded = {}) => SingleInstance(databases)

\* With the registry started empty, an install worker that had passed the
\* pre-check was refused at its commit because a record of the type had been
\* committed in between.
C1_Witness ==
    /\ loaded = {}
    /\ \E p \in Procs : /\ th[p].pc = "done"
                        /\ th[p].op = "install"
                        /\ th[p].installOk
                        /\ th[p].message = "Database type already exists"
                        /\ HasType(databases, th[p].id)

(***************************************************************************)
(* Lifecycle guards                                                        *)
(***************************************************************************)
\* C2: start_database on a record read as Running (a record loaded from the
\* state file as Running included) returns the failure 'Database is already
\* running', makes no backend start and writes nothing to the registry.
C2_StartOnRunningRejected ==
    \A p \in Procs :
        (th[p].pc = "done" /\ th[p].op = "start" /\ th[p].seen.status = "Running")
        => /\ ~th[p].success
           /\ th[p].message = "Database is already running"
           /\ "start" \notin th[p].calls
           /\ ~th[p].wrote

\* C3: stop_database on a record read as Stopped returns the failure 'Database
\* is not running', makes no backend stop and writes nothing to the registry;
\* on a record read as Running it is not refused with that message.
C3_StopGuardFollowsDeclaredStatus ==
    \A p \in Procs :
        (th[p].pc = "done" /\ th[p].op = "stop")
        => /\ th[p].seen.status = "Stopped"
                => /\ ~th[p].success
                   /\ th[p].message = "Database is not running"
                   /\ "stop" \notin th[p].calls
                   /\ ~th[p].wrote
           /\ th[p].seen.status = "Running"
                => th[p].message # "Database is not running"

\* C4: restart_database on a record read as Running whose backend stop failed
\* returns the stop's error, goes no further (the start guard's message is not
\* what it returns, no backend start is made) and writes nothing to the registry.
C4_RestartReportsStopError ==
    \A p \in Procs :
        (/\ th[p].pc = "done" /\ th[p].op = "restart"
         /\ th[p].seen.status = "Running"
         /\ "stop" \in th[p].calls /\ ~th[p].stopOk)
        => /\ ~th[p].success
           /\ th[p].message = th[p].stopMsg
           /\ "start" \notin th[p].calls
           /\ ~th[p].wrote

\* A backend stop of this record can only fail: it is managed through
\* Homebrew and Homebrew does not answer.
StopMustFail(db_info) ==
    /\ platform = "macos"
    /\ db_info.db_type \notin PidFileTypes
    /\ ~brewUp

\* C5: delete_database(id, with_data = true) on a record read as Running whose
\* backend stop fails returns a failure, does not remove the data directory
\* and does not remove the record.
C5_DeleteAbortsWhenStopFails ==
    \A p \in Procs :
        (/\ th[p].pc = "done" /\ th[p].op = "delete" /\ th[p].flag
         /\ th[p].seen.status = "Running"
         /\ StopMustFail(th[p].seen))
        => /\ ~th[p].success
           /\ "rm_data" \notin th[p].calls
           /\ ~th[p].wrote

(***************************************************************************)
(* Reconciliation                                                          *)
(***************************************************************************)
\* C6: a reconciliation pass that follows another one directly, with nothing
\* else having run and nothing outside having changed in between, makes no
\* update_database call and returns the ids and statuses the first pass left.
C6_SecondPassIsQuiet ==
    \A p \in Procs :
        (th[p].pc = "done" /\ th[p].op = "sync" /\ th[p].hasPrev)
        => /\ th[p].corrections = 0
           /\ th[p].post = th[p].prev

\* What sync_databases_status learnt about one record was a failure: the
\* sidecar file was missing, unreadable, unparsable or named a dead process,
\* or the record is Homebrew-managed and the batched listing failed.
ProbeFailed(probe) ==
    \/ probe.byPid /\ probe.pf \in {"missing", "unreadable", "garbage", "dead"}
    \/ ~probe.byPid /\ ~probe.listOk

\* Thread p has returned from a pass during which nothing else ran, and
\* nothing has happened since.
PassJustReturned(p) ==
    /\ th[p].pc = "done" /\ th[p].op = "sync"
    /\ quiet.valid /\ quiet.runner = ""

\* C7: a record whose probe failed is reconciled to Stopped, never to Running,
\* and the status loop still goes through every record it started with.
C7_FailedProbeMeansStopped ==
    \A p \in Procs :
        /\ \A probe \in th[p].probes : ProbeFailed(probe) => probe.actual = "Stopped"
        /\ (th[p].op = "sync" /\ th[p].pc \in {"sync_disc", "sync_emit", "sync_ret", "done"})
              => {probe.id : probe \in th[p].probes} = th[p].snapIds
        /\ PassJustReturned(p)
              => \A probe \in th[p].probes :
                    (ProbeFailed(probe) /\ probe.id \in DOMAIN databases)
                    => databases[probe.id].status = "Stopped"

\* A pass has returned that found one record's sidecar file unparsable,
\* corrected that record, and reconciled another record as well.
C7_Witness ==
    \E p \in Procs :
        /\ PassJustReturned(p)
        /\ th[p].corrections > 0
        /\ \E a, b \in th[p].probes :
              /\ a.id # b.id
              /\ a.pf = "garbage"
              /\ a.id \in DOMAIN databases /\ databases[a.id].status = "Stopped"

\* The engine types auto-discovery maps a started service to.
StartedServicesOf(brew_services, t) ==
    {n \in DOMAIN brew_services :
        /\ brew_services[n]
        /\ \E k \in 1..Len(service_mappings) :
              /\ service_mappings[k].db_type = t
              /\ StartsWith(n, service_mappings[k].prefix)}

RecordsOfType(dbs, t) == {i \in DOMAIN dbs : dbs[i].db_type = t}

C9_NoLostRecordWrite ==
    \A p, q \in Procs :
        (/\ p # q
         /\ th[p].pc = "done" /\ th[p].op = "autostart" /\ th[p].success
         /\ th[q].pc = "done" /\ th[q].op \in {"start", "stop"} /\ th[q].success
         /\ th[p].id = th[q].id
         /\ th[p].id \in DOMAIN databases)
        => /\ databases[th[p].id].auto_start = th[p].flag
           /\ databases[th[p].id].status =
                 (IF th[q].op = "start" THEN "Running" ELSE "Stopped")

\* No command is in progress.
AllReturned == phase = "ready" /\ \A p \in Procs : Resting(p)

\* C10: once every command has returned and no write of the state file has
\* failed, the state file holds exactly the records and the settings of the
\* registry.
C10_FileMatchesRegistry ==
    (AllReturned /\ ~saveFailed) => file = StateFile("ok", Values(databases), settings)

(***************************************************************************)
(* Locks                                                                   *)
(***************************************************************************)
\* Program points at which a thread is inside, or about to make, a call
\* that leaves the process: the backend start or stop, the restart
\* cooldown, the backend install, the removal of the data directory.
ExternalPcs == {"dm_start", "dm_start2", "dm_stop", "dm_stop2", "sleep", "w_install", "rm_data"}

\* A table in which restart_database keeps the record map locked from its
\* get_database to its update_database.
HeldAtRestartLocked(op, pc) ==
    IF op = "restart" /\ pc \in {"dm_stop", "sleep", "dm_start"} THEN {"databases"} ELSE {}

\* The MutexGuards (databases, settings, tasks) alive in a thread that rests
\* at program point pc of command op. Every guard is a local of a helper
\* (get_database, update_database, save_state, update_progress) or is dropped
\* before the next call, so none is alive between two steps.
HeldAt(op, pc) ==
    CASE pc \in {"dm_start", "dm_start2", "dm_stop", "dm_stop2"} -> {}  \* get_database returned a clone
      [] pc = "sleep" -> {}                                             \* restart_database: thread::sleep
      [] pc = "w_install" -> {}                                         \* update_progress has returned
      [] OTHER -> {}

C12_FailedInstallLeavesNoRecord ==
    \A p \in Procs :
        (/\ th[p].pc = "done" /\ th[p].op = "install"
         /\ th[p].task \in DOMAIN tasks
         /\ tasks[th[p].task].status = "Failed")
        => ~(th[p].installOk /\ th[p].info.id \in DOMAIN databases)

(***************************************************************************)
(* The life of an install task                                             *)
(***************************************************************************)
\* AppState::get_task, which get_task_status returns as it is.
get_task(id) == IF id \in DOMAIN tasks THEN tasks[id] ELSE NoTask

Terminal(task) == task.status \in {"Completed", "Failed"}

\* From the return of install_database on, its task id is known to get_task_status.
TaskStaysDefined ==
    /\ \A p \in Procs : (th[p].op = "install" /\ th[p].task # "") => get_task(th[p].task) # NoTask
    /\ \A k \in DOMAIN ticker : get_task(k) # NoTask

\* A task that exists is never removed, and a task that is Completed or
\* Failed keeps its status and its progress.
TaskStepOk ==
    \A k \in DOMAIN tasks :
        /\ k \in DOMAIN tasks'
        /\ Terminal(tasks[k]) => /\ tasks'[k].status = tasks[k].status
                                 /\ tasks'[k].progress = tasks[k].progress

\* C13: a task id install_database returned stays known to get_task_status;
\* when the platform's install call returns, the task reaches Completed or
\* Failed; a Failed task carries an error; and a Completed or Failed task
\* changes neither status nor progress afterwards.
C13_TaskLifeCycle ==
    /\ []TaskStaysDefined
    /\ [][TaskStepOk]_vars
    /\ [](\A k \in DOMAIN tasks : tasks[k].status = "Failed" => tasks[k].error # NoError)
    /\ \A p \in Procs : (th[p].pc = "w_start") ~> (th[p].pc = "done" /\ Terminal(get_task(th[p].task)))

\* A progress thread that woke before its install failed finds the task
\* Failed and leaves its progress alone.
C13_Witness ==
    \E k \in DOMAIN ticker :
        /\ ticker[k].pc = "ended"
        /\ tasks[k].status = "Failed" /\ tasks[k].error = InstallError
        /\ tasks[k].progress = ProgressStep

(***************************************************************************)
(* Rejections of add_database and install_database                         *)
(***************************************************************************)
\* Thread p takes the call of command op in this step.
Calls(p, op) == Resting(p) /\ th'[p] # th[p] /\ th'[p].op = op

\* C14: add_database(r) with r.id registered, or with a record of r's type
\* registered, fails and leaves the registry as it is, and otherwise inserts
\* r and touches no other record; install_database for a registered type or
\* an unsupported type string fails, creates no task and starts no worker.
C14_AddAndInstallRejections ==
    [][\A p \in Procs :
          /\ Calls(p, "add") =>
                LET r == th'[p].info
                    taken == r.id \in DOMAIN databases
                             \/ \E i \in DOMAIN databases : databases[i].db_type = r.db_type
                IN  IF taken
                    THEN th'[p].pc = "done" /\ ~th'[p].success /\ databases' = databases
                    ELSE /\ DOMAIN databases' = DOMAIN databases \cup {r.id}
                         /\ databases'[r.id] = r
                         /\ \A i \in DOMAIN databases : databases'[i] = databases[i]
          /\ Calls(p, "install") =>
                LET t == th'[p].id
                    refused == t \notin DatabaseType
                               \/ \E i \in DOMAIN databases : databases[i].db_type = t
                IN  refused => /\ th'[p].pc = "done" /\ ~th'[p].success
                               /\ UNCHANGED <<tasks, ticker, databases>>]_vars

\* add_database has inserted its record on one thread and has yet to save;
\* install_database for that record's type is turned away on the other, and
\* no task exists.
C14_Witness ==
    /\ th["t1"].op = "add" /\ th["t1"].pc = "save_db"
    /\ th["t1"].info.id \in DOMAIN databases
    /\ th["t2"].op = "install" /\ th["t2"].pc = "done"
    /\ th["t2"].id = th["t1"].info.db_type
    /\ th["t2"].message = "Database type already installed"
    /\ tasks = EmptyMap

(***************************************************************************)
(* update_database                                                         *)
(***************************************************************************)
\* C15: one step of update_database(r) leaves the registry mapping r.id to r,
\* holding no other record of r's type, and holding every other record of a
\* different type exactly as it was.
C15_UpdateDatabaseFrame ==
    [][\A p \in Procs :
          (th[p].pc = "update" /\ th'[p] # th[p]) =>
             LET r == th[p].info IN
             /\ r.id \in DOMAIN databases' /\ databases'[r.id] = r
             /\ \A i \in DOMAIN databases' : i # r.id => databases'[i].db_type # r.db_type
             /\ \A i \in DOMAIN databases' : i # r.id => i \in DOMAIN databases
             /\ \A i \in DOMAIN databases :
                   (i # r.id /\ databases[i].db_type # r.db_type)
                   => (i \in DOMAIN databases' /\ databases'[i] = databases[i])]_vars

\* The second discovery of a pass has just gone through update_database: its
\* record is registered, the record the first discovery made is gone, and a
\* record of another type is still there.
C15_Witness ==
    \E p \in Procs :
        /\ th[p].op = "sync" /\ th[p].pc = "save_db" /\ th[p].corrections = 2
        /\ th[p].info.id = generate_id(clock - 1)
        /\ th[p].info.id \in DOMAIN databases
        /\ generate_id(clock - 2) \notin DOMAIN databases
        /\ \E i \in DOMAIN databases : databases[i].db_type # th[p].info.db_type

(***************************************************************************)
(* start_database and stop_database                                        *)
(***************************************************************************)
\* What DatabaseManager reports when a start or a stop did not happen.
ManagerDiagnostics ==
    {"Database is not installed", "Database is already running", "Database is not running",
     "Failed to start via Homebrew", "Failed to stop via Homebrew", "Failed to start database"}

\* The status a successful start_database or stop_database leaves.
TargetStatus(op) == IF op = "start" THEN "Running" ELSE "Stopped"

\* C16: start_database and stop_database write the record exactly when the
\* DatabaseManager call succeeded: the write sets the status to Running
\* (Stopped), carries a later updated_at and is followed by the save of the
\* registry; a failed call returns the manager's diagnostic and no step of
\* the command touches the registry.
C16_StartStopWriteIffSuccess ==
    /\ [][\A p \in Procs :
            (th[p].op \in {"start", "stop"} /\ th'[p] # th[p] /\ ~Resting(p)) =>
               IF th[p].pc = "update"
               THEN /\ th[p].success
                    /\ databases'[th[p].id] = [th[p].seen EXCEPT !.status = TargetStatus(th[p].op),
                                                                 !.pid = th[p].info.pid,
                                                                 !.updated_at = th[p].info.updated_at]
                    /\ databases'[th[p].id].updated_at > th[p].seen.updated_at
                    /\ th'[p].pc = "save_db"
               ELSE databases' = databases]_vars
    /\ [](\A p \in Procs :
            (th[p].op \in {"start", "stop"} /\ th[p].pc = "done" /\ th[p].seen # NoInfo) =>
               /\ th[p].success <=> th[p].wrote
               /\ ~th[p].success => th[p].message \in ManagerDiagnostics)

\* A stop that Homebrew refused has returned on one thread with its record
\* still Running, and a start on the other thread has succeeded, written its
\* record as Running and returned.
C16_Witness ==
    /\ th["t2"].op = "stop" /\ th["t2"].pc = "done"
    /\ th["t2"].message = "Failed to stop via Homebrew"
    /\ th["t2"].id \in DOMAIN databases /\ databases[th["t2"].id] = th["t2"].seen
    /\ th["t1"].op = "start" /\ th["t1"].pc = "done" /\ th["t1"].success
    /\ th["t1"].seen.status = "Stopped"
    /\ databases[th["t1"].id].status = "Running"

(***************************************************************************)
(* restart_database on a record that is not Running                        *)
(***************************************************************************)
\* C17: restart_database on a record read as not Running returns the stop
\* step's 'Database is not running', makes no backend start and leaves the
\* record as it read it.
C17_RestartOfStoppedStops ==
    \A p \in Procs :
        (/\ th[p].pc = "done" /\ th[p].op = "restart"
         /\ th[p].seen # NoInfo /\ th[p].seen.status # "Running")
        => /\ ~th[p].success
           /\ th[p].message = "Database is not running"
           /\ "start" \notin th[p].calls
           /\ ~th[p].wrote

(***************************************************************************)
(* delete_database on a running engine                                     *)
(***************************************************************************)
\* C18: whenever delete_database removes a record that the registry holds as
\* Running, the command has made the backend stop call for it before.
C18_DeleteStopsRunningFirst ==
    [][\A p \in Procs :
          (/\ th[p].op = "delete" /\ th[p].pc = "remove" /\ th'[p] # th[p]
           /\ th[p].id \in DOMAIN databases
           /\ databases[th[p].id].status = "Running"
           /\ th[p].seen.status = "Running")
          => "stop" \in th[p].calls]_vars

(***************************************************************************)
(* Commands on an id the registry does not hold                            *)
(***************************************************************************)
IdCommands == {"start", "stop", "restart", "delete", "autostart"}

\* C19: start, stop, restart, delete and update_database_autostart called
\* with an id the registry does not hold return the failure 'Database not
\* found' at once: no backend call, the registry, the state file and the
\* engines are as they were.
C19_UnknownIdIsRefused ==
    [][\A p \in Procs, op \in IdCommands :
          (Calls(p, op) /\ th'[p].id \notin DOMAIN databases)
          => /\ th'[p].pc = "done" /\ ~th'[p].success
             /\ th'[p].message = "Database not found"
             /\ th'[p].calls = {} /\ ~th'[p].wrote
             /\ UNCHANGED <<databases, file, mock_pids, env>>]_vars

\* delete_database, the second command called, has been refused for an id
\* that the registry, which holds a record, does not hold.
C19_Witness ==
    /\ th["t1"].op = "delete" /\ th["t1"].pc = "done"
    /\ th["t1"].message = "Database not found"
    /\ th["t1"].id \notin DOMAIN databases
    /\ databases # EmptyMap
    /\ ops = 2

(***************************************************************************)
(* update_database_autostart                                               *)
(***************************************************************************)
\* C20: the write of update_database_autostart(id, b) to a registered record
\* sets that record's auto_start to b and moves its updated_at and changes
\* nothing else: the record's status, pid, port and path and every other
\* record are as they were, and no step of the command makes a backend
\* start or stop.
C20_AutostartFrame ==
    [][\A p \in Procs :
          (th[p].op = "autostart" /\ th'[p] # th[p] /\ ~Resting(p)) =>
             /\ th[p].calls = {} /\ th'[p].calls = {}
             /\ UNCHANGED <<mock_pids, env>>
             /\ (th[p].pc = "update" /\ th[p].id \in DOMAIN databases) =>
                   /\ DOMAIN databases' = DOMAIN databases
                   /\ \A i \in DOMAIN databases :
                         i # th[p].id => databases'[i] = databases[i]
                   /\ databases'[th[p].id] =
                         [databases[th[p].id] EXCEPT !.auto_start = th[p].flag,
                                                     !.updated_at = databases'[th[p].id].updated_at]
             /\ th[p].pc # "update" => databases' = databases]_vars

(***************************************************************************)
(* The databases-updated notification                                      *)
(***************************************************************************)
\* The commands and the worker that write the registry outside reconciliation.
MutatingCommands == {"start", "stop", "restart", "delete", "autostart", "install"}

\* C21: a start, stop, restart, delete, autostart update or install commit
\* that has written the registry has emitted databases-updated by the time
\* it returns.
C21_MutationIsNotified ==
    \A p \in Procs :
        (th[p].pc = "done" /\ th[p].op \in MutatingCommands /\ th[p].wrote)
        => th[p].emits > 0

\* C22: a reconciliation pass emits databases-updated exactly once, with
\* nothing left to correct or discover and no registry write of its own
\* after it, whether or not it changed anything; the payload is the full
\* record list at the emit, which for a pass that ran alone is the list the
\* pass leaves.
C22_OneNotificationPerPass ==
    /\ [](\A p \in Procs :
            th[p].op = "sync" =>
               /\ th[p].emits = IF th[p].pc \in {"sync_ret", "done"} THEN 1 ELSE 0
               /\ PassJustReturned(p) => th[p].payload = Values(databases))
    /\ [][\A p \in Procs :
            (th[p].op = "sync" /\ th'[p] # th[p] /\ ~Resting(p)) =>
               /\ th'[p].emits > th[p].emits =>
                     /\ th[p].todo = {} /\ th[p].svcs = {}
                     /\ th'[p].payload = Values(databases)
               /\ th[p].emits > 0 => databases' = databases]_vars

\* A pass that ran alone and corrected nothing has returned from a registry
\* that holds a record, and has emitted its one notification.
C22_Witness ==
    \E p \in Procs :
        /\ PassJustReturned(p)
        /\ th[p].corrections = 0 /\ th[p].emits = 1
        /\ databases # EmptyMap /\ th[p].payload = Values(databases)

(***************************************************************************)
(* The record an install leaves                                            *)
(***************************************************************************)
\* The well-known port of each engine type.
WellKnownPort ==
    [t \in DatabaseType |->
        CASE t = "mysql" -> 3306
          [] t = "postgresql" -> 5432
          [] t = "mongodb" -> 27017
          [] t = "redis" -> 6379
          [] t = "qdrant" -> 6333
          [] t = "surrealdb" -> 8000]

\* Thread p's install worker inserts its record in this step.
Commits(p) ==
    /\ th[p].op = "install" /\ th[p].pc = "w_commit"
    /\ th'[p] # th[p] /\ th'[p].pc = "save_db"

\* The port rule of the install: the well-known port when none was asked for,
\* the port asked for otherwise, and exactly one record of the type.
InstalledPortAndCount(p) ==
    LET r == th[p].info IN
    /\ r.id \in DOMAIN databases' /\ databases'[r.id] = r
    /\ r.port = IF th[p].port = NoPort THEN WellKnownPort[r.db_type] ELSE th[p].port
    /\ RecordsOfType(databases', r.db_type) = {r.id}

\* A Completed install has committed its record.
CompletedHasCommitted ==
    \A p \in Procs :
        (/\ th[p].op = "install" /\ th[p].pc = "done"
         /\ get_task(th[p].task).status = "Completed") => th[p].wrote

\* C23: the record an install commits has the well-known port of
\* its type, or the port asked for, is the only record of its type, and is
\* Running with auto_start on or Stopped with auto_start off.
C23_InstalledRecordAsStated ==
    /\ [](CompletedHasCommitted
          /\ \A t \in DatabaseType : install_port(t, NoPort) = WellKnownPort[t])
    /\ [][\A p \in Procs :
            Commits(p) =>
               /\ InstalledPortAndCount(p)
               /\ \/ th[p].info.auto_start /\ th[p].info.status = "Running"
                  \/ ~th[p].info.auto_start /\ th[p].info.status = "Stopped"]_vars

(***************************************************************************)
(* C24: the state file round trip                                          *)
(***************************************************************************)
\* AppStateData as save_state builds it and load_state returns it.
AppStateData(dbs, s) == [databases |-> dbs, settings |-> s]

\* A write of the state file that succeeded in this step, by thread p.
Wrote(p) == th[p].pc = "save_write" /\ th'[p].pc # "save_write" /\ th'[p].saveOk

StartsWithoutFile == phase = "boot" /\ phase' = "autostart" /\ file.kind \in {"absent", "corrupt"}

\* A record AppState::sync_with_homebrew created at this launch.
FromHomebrewSync(r) ==
    /\ platform = "macos"
    /\ r.id = "homebrew-sync-" \o as_str(r.db_type)
    /\ r.db_type \in get_installed_databases_from_homebrew(brewUp, brewList)

\* C25 as stated: started on an absent or unparsable file, the application
\* has an empty registry and default settings.
C25_StartsEmptyAsStated ==
    [][StartsWithoutFile
          => (loaded' = {} /\ databases' = EmptyMap /\ settings' = GlobalSettingsDefault)]_vars

\* C25, amended: started on an absent or unparsable file, the application
\* takes an empty record list and default settings from load_state, nothing of
\* the file's text reaches the registry, and the registry is empty except for
\* the records the macOS build creates for engines Homebrew reports.
C25_StartsFromDefaults ==
    [][StartsWithoutFile
          => /\ loaded' = {}
             /\ settings' = GlobalSettingsDefault
             /\ \A r \in Values(databases') : FromHomebrewSync(r)
             /\ (platform # "macos" => databases' = EmptyMap)]_vars

\* The application started on an unparsable file (still on disk, its rewrite
\* failed) with default settings and only a discovered record.
C25_Witness ==
    /\ phase # "boot"
    /\ file = FileCorrupt
    /\ loaded = {}
    /\ settings = GlobalSettingsDefault
    /\ DOMAIN databases = {"homebrew-sync-mysql"}

(***************************************************************************)
(* C26: a failed write of the state file                                   *)
(***************************************************************************)
SavePcs == {"save_db", "save_settings", "save_write"}

\* save_state returns Err to thread p in this step.
SaveFails(p) == th[p].pc \in SavePcs /\ th'[p].pc \notin SavePcs /\ ~th'[p].saveOk

\* Thread p has returned from a command that changed the registry or the
\* settings through update_database, remove_database or update_settings.
Mutated(p) ==
    /\ th[p].pc = "done"
    /\ th[p].wrote
    /\ th[p].op \in {"start", "stop", "restart", "delete", "autostart", "settings"}

\* C26: a failed write leaves the record map and the settings as the mutation
\* made them; save_state snapshots the whole record map and the whole settings
\* after the mutation and a successful write stores exactly that snapshot; so
\* when commands run one after another, the file after a successful write
\* equals the in-memory state, whatever writes failed before it.
C26_FailedWriteKeepsMemory ==
    /\ [][\A p \in Procs :
             /\ SaveFails(p) => (databases' = databases /\ settings' = settings)
             /\ (th[p].pc = "save_db" /\ th'[p].pc = "save_settings")
                   => th'[p].snapDb = Values(databases)
             /\ (th[p].pc = "save_settings" /\ th'[p].pc = "save_write")
                   => th'[p].snapSet = settings
             /\ Wrote(p) => file' = StateFile("ok", th[p].snapDb, th[p].snapSet)
         ]_vars
    /\ [](( /\ Mutated("t1") /\ th["t1"].saveOk
            /\ th["t2"].pc = "idle")
          => file = StateFile("ok", Values(databases), settings))

\* The write of update_settings failed; the overlapping start's write then
\* succeeded and stored the new settings with the started record.
C26_Witness ==
    /\ th["t2"].pc = "done" /\ th["t2"].op = "settings" /\ ~th["t2"].saveOk
    /\ Mutated("t1") /\ th["t1"].op = "start" /\ th["t1"].saveOk
    /\ Cardinality(loaded) = 1
    /\ settings = [theme |-> "dark"]
    /\ file = StateFile("ok", Values(databases), settings)
    /\ \E r \in Values(databases) : r.id = th["t1"].id /\ r.status = "Running"

(***************************************************************************)
(* C27: two overlapping start_database calls                               *)
(***************************************************************************)
\* Thread p has returned from start_database(id) having read the record Stopped.
StartedFromStopped(p, id) ==
    /\ th[p].pc = "done" /\ th[p].op = "start" /\ th[p].id = id
    /\ th[p].seen.status = "Stopped"

\* C27: of two start_database calls that both read the same record as Stopped,
\* at most one invokes the backend's start and at most one reports success.
C27_OneStartWins ==
    \A id \in DOMAIN databases :
        (StartedFromStopped("t1", id) /\ StartedFromStopped("t2", id))
        => /\ ~("start" \in th["t1"].calls /\ "start" \in th["t2"].calls)
           /\ ~(th["t1"].success /\ th["t2"].success)

(***************************************************************************)
(* C28: two overlapping installs of one type                               *)
(***************************************************************************)
\* Both workers installed type t and have been through the commit.
BothCommitted(t) ==
    \A p \in Procs :
        /\ th[p].pc = "done" /\ th[p].op = "install" /\ th[p].id = t
        /\ th[p].task \in DOMAIN tasks /\ th[p].installOk

\* Worker p inserted its record and its task ended Completed.
Won(p) == th[p].wrote /\ get_task(th[p].task).status = "Completed"

\* Worker p inserted nothing and its task ended Failed on the type check.
Lost(p) ==
    /\ ~th[p].wrote
    /\ get_task(th[p].task).status = "Failed"
    /\ th[p].message = "Database type already exists"

\* C28: of two install workers of one type that both reach the commit,
\* exactly one inserts its record and ends Completed, the other ends Failed
\* with the type-already-exists error and inserts nothing, and one record of
\* the type is registered.
C28_OneInstallWins ==
    \A t \in DatabaseType :
        BothCommitted(t)
        => /\ \/ Won("t1") /\ Lost("t2")
              \/ Won("t2") /\ Lost("t1")
           /\ Cardinality({i \in DOMAIN databases : databases[i].db_type = t}) = 1

(***************************************************************************)
(* C29: a deleted record and the writers that read it before the delete    *)
(***************************************************************************)
\* Thread p is about to hand update_database the copy of a record it read
\* earlier: a start, stop, restart or autostart update, or a status
\* correction of a reconciliation pass.
WritesBack(p) ==
    /\ th[p].pc = "update"
    /\ \/ th[p].op \in {"start", "stop", "restart", "autostart"}
       \/ th[p].op = "sync" /\ th[p].after = "sync_loop"

\* delete_database(id) by thread q has removed the record and reports success.
Deleted(q, id) ==
    th[q].op = "delete" /\ th[q].id = id /\ th[q].wrote /\ th[q].success

\* C29: once a successful delete_database(id) has removed a record, no
\* command or reconciliation pass that read it before puts it back.
C29_DeletedStaysDeleted ==
    [][\A p \in Procs : \A q \in Procs \ {p} :
          ( /\ WritesBack(p)
            /\ Deleted(q, th[p].info.id)
            /\ th[p].info.id \notin DOMAIN databases )
          => th[p].info.id \notin DOMAIN databases'
      ]_vars

(***************************************************************************)
(* C30: a reconciliation pass and the record an install committed          *)
(***************************************************************************)
\* The record the install worker q committed is registered as r.
Installed(q, r) ==
    /\ th[q].op = "install" /\ th[q].wrote
    /\ r.id = th[q].info.id
    /\ r.id \in DOMAIN databases /\ databases[r.id] = r

\* What an install fixes of its record: id, type, port and data path.
SameInstall(r, s) ==
    /\ s.id = r.id /\ s.db_type = r.db_type
    /\ s.port = r.port /\ s.data_path = r.data_path

\* C30: no step of a reconciliation pass removes or replaces a record that an
\* install committed: the record keeps its id, type, port and data path.
C30_PassKeepsInstalledRecord ==
    [][\A p \in Procs : \A q \in Procs \ {p} :
          \A r \in Values(databases) :
              (th[p].op = "sync" /\ th'[p] # th[p] /\ Installed(q, r))
              => /\ r.id \in DOMAIN databases'
                 /\ SameInstall(r, databases'[r.id])
      ]_vars

(***************************************************************************)
(* C31: restart_database whose start step fails                            *)
(***************************************************************************)
\* restart_database by thread p has returned: the backend stop succeeded and
\* the start that followed did not.
StoppedNotStarted(p) ==
    /\ th[p].pc = "done" /\ th[p].op = "restart"
    /\ "stop" \in th[p].calls /\ th[p].stopOk
    /\ ~th[p].success

\* C31: when restart_database has stopped the engine and failed to start it
\* again, the registry holds the record as Stopped.
C31_RestartRecordsTheStop ==
    \A p \in Procs :
        (StoppedNotStarted(p) /\ th[p].id \in DOMAIN databases)
        => databases[th[p].id].status = "Stopped"

(***************************************************************************)
(* C32: delete_database whose data removal fails after the stop            *)
(***************************************************************************)
\* delete_database(id, with_data) by thread p has returned an error after
\* its backend stop succeeded: remove_dir_all failed.
StoppedNotDeleted(p) ==
    /\ th[p].pc = "done" /\ th[p].op = "delete" /\ th[p].flag
    /\ "stop" \in th[p].calls /\ th[p].stopOk
    /\ ~th[p].success

\* C32: when delete_database has stopped the engine and then failed to
\* remove the data directory, the record is still registered and is Stopped.
C32_FailedDeleteRecordsTheStop ==
    \A p \in Procs :
        StoppedNotDeleted(p)
        => /\ th[p].id \in DOMAIN databases
           /\ databases[th[p].id].status = "Stopped"

(***************************************************************************)
(* C33: the sidecar PID file after a backend stop                          *)
(***************************************************************************)
\* The backend stop of a directly spawned engine returns to thread p in this
\* step (stop_qdrant_process / stop_surrealdb_process on macOS).
SidecarStopReturns(p) ==
    /\ platform = "macos"
    /\ th[p].pc = "dm_stop"
    /\ th[p].info.db_type \in PidFileTypes
    /\ "stop" \notin th[p].calls /\ "stop" \in th'[p].calls

\* C33: when the backend stop of a directly spawned engine returns, with Ok
\* or with an error, the engine's sidecar PID file does not exist.
C33_StopRemovesSidecarFile ==
    [][\A p \in Procs :
          SidecarStopReturns(p) => pidFile'[th[p].info.db_type] = "missing"]_vars

(***************************************************************************)
(* C34: the alias order of the Homebrew status matching                    *)
(***************************************************************************)
\* The status the listing gives for the aliases tried in order: that of the
\* first alias listed, Stopped when none is listed.
StatusByAliasOrder(listing, aliases) ==
    IF \E i \in 1..Len(aliases) : aliases[i] \in DOMAIN listing
    THEN LET first == CHOOSE i \in 1..Len(aliases) :
                         /\ aliases[i] \in DOMAIN listing
                         /\ \A j \in 1..(i - 1) : aliases[j] \notin DOMAIN listing
         IN  IF listing[aliases[first]] THEN "Running" ELSE "Stopped"
    ELSE "Stopped"

\* The record the status loop of thread p handles in this step.
Probed(p) == th[p].todo \ th'[p].todo

\* C34: for a record managed through Homebrew, each iteration of the status
\* loop computes the status of the first alias of the record's type that the
\* pass's service listing holds, and Stopped when it holds none.
C34_FirstListedAliasWins ==
    [][\A p \in Procs :
          (platform = "macos" /\ th[p].op = "sync" /\ th[p].pc = "sync_loop")
          => \A r \in Probed(p) :
                r.db_type \notin PidFileTypes
                => \A pr \in th'[p].probes \ th[p].probes :
                      pr.actual = StatusByAliasOrder(th[p].brew, BrewAliases(r.db_type))
      ]_vars

\* A pass found the first listed MySQL alias stopped while a later alias was
\* started, and computed Stopped.
C34_Witness ==
    \E p \in Procs :
        /\ th[p].op = "sync"
        /\ <<"mysql", "@8.4">> \in DOMAIN th[p].brew /\ ~th[p].brew[<<"mysql", "@8.4">>]
        /\ <<"mysql">> \in DOMAIN th[p].brew /\ th[p].brew[<<"mysql">>]
        /\ \E pr \in th[p].probes :
              /\ ~pr.byPid /\ pr.actual = "Stopped"
              /\ pr.id \in DOMAIN databases /\ databases[pr.id].db_type = "mysql"

(***************************************************************************)
(* C35: the progress of an install task                                    *)
(***************************************************************************)
\* No step lowers the progress of a task.
ProgressStepOk ==
    \A k \in DOMAIN tasks : k \in DOMAIN tasks' => tasks'[k].progress >= tasks[k].progress

\* The progress thread of task k leaves its update in this step.
TickerLeavesUpdate(k) == ticker[k].pc = "woke" /\ ticker'[k].pc # "woke"

Starts == phase = "boot" /\ phase' = "autostart"

\* C36: the registry AppState::new builds from the state file holds at most
\* one record per engine type, also when the file lists several records of
\* one type under different ids.
C36_StartupKeepsOnePerType ==
    [][Starts => SingleInstance(databases')]_vars

(***************************************************************************)
(* C37: the status refresh of startup                                      *)
(***************************************************************************)
\* The listing holds a started service under the name the startup refresh
\* asks for type t (with or without a version suffix).
OwnServiceStarted(list, t) ==
    \E n \in DOMAIN list : StartsWith(n, get_brew_service_name(t)) /\ list[n] = "started"

\* C37: a record that AppState::new loads and refreshes through Homebrew is
\* Running afterwards only if the listing holds that record's own service as
\* started.
C37_RunningOnlyIfOwnServiceStarted ==
    [][(Starts /\ platform = "macos" /\ brewUp)
          => \A r \in load_state(file).databases :
                databases'[r.id].status = "Running" => OwnServiceStarted(brewList, r.db_type)
      ]_vars

(***************************************************************************)
(* C38: the unparsable state file after startup                            *)
(***************************************************************************)
\* C38: started on a state file that exists but does not parse,
\* AppState::new leaves the file as it found it.
C38_UnparsableFileIsKept ==
    [][(Starts /\ file.kind = "corrupt") => file' = file]_vars

(***************************************************************************)
(* C39: the locks of AppState, DatabaseManager and the install threads     *)
(***************************************************************************)
Locks == {"databases", "settings", "tasks", "mock_pids", "next_pid"}

\* A worker that calls save_app_state before it drops its guard of the record
\* map: the settings lock is taken with the record map locked.
CommitSectionsNested == << {"databases"}, {"databases", "settings"} >>

\* The install worker's commit: the guard of the record map is alive for the
\* two checks and the insert, and is dropped before save_app_state.
CommitSections == << {"databases"} >>

\* The critical sections a thread goes through in the step it takes at
\* program point pc of command op, in order: each is the set of MutexGuards
\* alive at once. At "idle" and "done" the step is the call of command op.
Sections(op, pc) ==
    CASE pc \in {"idle", "done"} ->
            (CASE op = "settings" -> << {"settings"} >>               \* update_settings
               [] op = "install" -> << {"databases"}, {"tasks"} >>     \* get_database_by_type; add_task
               [] OTHER -> << {"databases"} >>)                        \* get_database, add_database, get_all_databases
      [] pc \in {"dm_start", "dm_stop", "del_status"} -> << {"mock_pids"} >>   \* is_mock_process_running
      [] pc = "dm_start2" -> << {"next_pid"}, {"mock_pids"} >>         \* generate_mock_pid; then the insert
      [] pc = "dm_stop2" -> << {"mock_pids"} >>                        \* stop_mock_process
      [] pc \in {"update", "remove"} -> << {"databases"} >>             \* update_database, remove_database
      [] pc = "w_commit" -> CommitSections
      [] pc = "save_db" -> << {"databases"} >>                         \* the block around db_map
      [] pc = "save_settings" -> << {"settings"} >>                    \* the temporary guard of the clone
      [] pc \in {"w_start", "w_finish"} -> << {"tasks"} >>             \* update_progress; the terminal status
      [] pc \in {"sync_loop", "sync_emit", "sync_ret"} -> << {"databases"} >>  \* get_all_databases
      [] OTHER -> << >>        \* sleep, rm_data, save_write, w_install, sync_disc, boot_loop

\* The progress thread: the tasks lock once it has slept.
TickerSections(pc) == IF pc = "woke" THEN << {"tasks"} >> ELSE << >>

\* The critical sections of the thread that takes this step.
StepSections ==
    IF \E p \in Procs : th'[p] # th[p]
    THEN LET p == CHOOSE q \in Procs : th'[q] # th[q]
         IN  Sections(IF Resting(p) THEN th'[p].op ELSE th[p].op, th[p].pc)
    ELSE IF \E k \in DOMAIN ticker : ticker'[k] # ticker[k]
    THEN LET k == CHOOSE j \in DOMAIN ticker : ticker'[j] # ticker[j]
         IN  TickerSections(ticker[k].pc)
    ELSE << >>

\* The lock-protected values this step changes.
Written ==
    {l \in Locks : \/ l = "databases" /\ databases' # databases
                   \/ l = "settings" /\ settings' # settings
                   \/ l = "tasks" /\ tasks' # tasks
                   \/ l = "mock_pids" /\ mock_pids' # mock_pids
                   \/ l = "next_pid" /\ next_pid' # next_pid}

\* Some step of thread p is possible.
ThreadStep(p) ==
    \/ BootLoop(p)
    \/ DmStartMac(p) \/ DmStartCheck(p) \/ DmStartMock(p)
    \/ DmStopMac(p) \/ DmStopCheck(p) \/ DmStopMock(p)
    \/ RestartSleep(p) \/ DeleteStatus(p) \/ DeleteData(p)
    \/ RemoveDatabase(p) \/ UpdateStep(p)
    \/ SaveDb(p) \/ SaveSettings(p) \/ SaveWrite(p)
    \/ WorkerStep(p)
    \/ SyncRecord(p) \/ SyncRegistered(p) \/ SyncDiscover(p) \/ SyncEmit(p) \/ SyncReturn(p)

====
